---- MODULE Spec2Model ----
(***************************************************************************)
(* A model of libzmf: format detection (ZMFDocument.cpp), the byte reader  *)
(* (libzmf_utils.cpp), the drawing parser's object loop (ZMF4Parser.cpp),  *)
(* the collector's document/page/layer life cycle (ZMFCollector.cpp) and   *)
(* the pure helpers of the bitmap header, the bounding box, the pen's dash *)
(* pattern and the curve reader.                                           *)
(*                                                                         *)
(* Stream offsets are byte offsets.  The bytes of a stream are not stored: *)
(* a stream is its length plus the values of the fields the code decodes.  *)
(* The fields of the file headers are fixed in Init; the object headers    *)
(* and object bodies of a drawing are drawn when the parser reads them     *)
(* (each object header is read once, at strictly increasing offsets).      *)
(***************************************************************************)
EXTENDS Integers, Sequences, FiniteSets, TLC

VARIABLES
  stream,        \* the input stream handed to the entry point (file-header fields, length)
  entry,         \* the public entry point that was called: "none", "isSupported", "parse"
  pc,            \* position of the call
  pos,           \* m_input->tell() of the content stream
  col,           \* the ZMFCollector (flags) together with the calls its painter received
  m_pageNumber,  \* ZMF4Parser::m_pageNumber
  pageStartsRead, \* how many of the object headers readPage read were page starts
  hdr,           \* the object header read last by readObjectHeader
  info,          \* DetectionInfo: m_type, m_kind
  probes,        \* the candidates detect() tried, in order, with the outcome of each
  raised,        \* the exceptions raised so far, in order, with the place that caught them
  result,        \* what the entry point returned: "none", "true", "false", "threw"
  fn,            \* pure-function harness: the function applied
  arg,           \* pure-function harness: its input
  ret            \* pure-function harness: its output

vars == <<stream, entry, pc, pos, col, m_pageNumber, pageStartsRead, hdr, info, probes, raised, result, fn, arg, ret>>

docVars == <<stream, entry, pc, pos, col, m_pageNumber, pageStartsRead, hdr, info, probes, raised, result>>
fnVars == <<fn, arg, ret>>

----------------------------------------------------------------------------
(* Program constants *)

\* 0xffffffff, written as the 32-bit two's complement value of the same bits
NO_ID == -1
ZMF4_SIGNATURE == 305419896
ZBR_SIG == 666
\* stands for every uint32 value of 2^31 and more: larger than any stream length
HugeU32 == 2147483647

\* a - b in uint32 arithmetic, for operands below 2^31: a wrapped difference is huge
U32Sub(a, b) == IF a >= b THEN a - b ELSE HugeU32

\* a + b in uint32_t, for an a below 2^31; a negative b stands for the value 2^32 + b
U32Add(a, b) == IF b >= 0 \/ a + b >= 0 THEN a + b ELSE HugeU32

None == "none"
EndOfStreamException == "EndOfStreamException"
SeekFailedException == "SeekFailedException"
GenericException == "GenericException"

\* BOOST_ASSERT(this->is_initialized()) of boost::optional fails: the process is aborted
AssertionFailed == "AssertionFailed"

----------------------------------------------------------------------------
(* Bounds of the model *)

\* number of whole object headers the longest drawing stream holds
MaxObjects == 7

\* dash lengths of 1..MaxDashDots whole dots are drawn besides the fixed ones
MaxDashDots == 4

\* painter calls after which the collector is called no more
MaxCalls == 4

\* objects read by the parser of pens, arrows and shapes
MaxStyleObjects == 3

\* most section records (terminators included) a curve input holds
MaxSections == 4

\* the valid point count above 1 drawn for a curve
MaxCurvePoints == 4

\* largest value drawn for the widths and heights of the bitmap reconciliation
MaxDim == 2

\* longest point list handed to the BoundingBox constructor
MaxPoints == 5

\* largest coordinate of a rectangle corner
MaxCoord == 3

\* bytes of the fields of variable length of a resource object
MaxTail == 8

\* references of an object beyond the first
MaxRefs == 2

\* stops that fit into the largest gradient fill object
MaxStops == 3

\* compressed blocks of a bitmap's data
MaxBlocks == 3

----------------------------------------------------------------------------
(* The byte reader: libzmf_utils.cpp *)

Read(n) == [op |-> "read", n |-> n]
Skip(n) == [op |-> "skip", n |-> n]
Seek(p) == [op |-> "seek", n |-> p]

\* checkStream: the stream is at its end
checkStream(L, p) == IF p >= L THEN EndOfStreamException ELSE None

\* readU8/readU16/readU32/readNBytes: checkStream, then a read of n bytes that must be complete
readN(L, p, n) ==
  IF checkStream(L, p) # None THEN EndOfStreamException
  ELSE IF p + n > L THEN EndOfStreamException
  ELSE None

\* seek: the stream refuses a position outside [0, length]
seek(L, target) == IF target > L \/ target < 0 THEN SeekFailedException ELSE None

\* skip: checkStream, then seekRelative
skip(L, p, n) ==
  IF checkStream(L, p) # None THEN EndOfStreamException
  ELSE IF n >= HugeU32 THEN SeekFailedException
  ELSE seek(L, p + n)

\* run a sequence of reader calls from offset p: the first exception, or the final offset
RECURSIVE RunIO(_, _, _)
RunIO(L, p, ops) ==
  IF ops = <<>> THEN [exc |-> None, pos |-> p]
  ELSE LET Call(o) == IF o.op = "read" THEN readN(L, p, o.n)
                      ELSE IF o.op = "skip" THEN skip(L, p, o.n)
                      ELSE seek(L, o.n)
           After(o) == IF o.op = "seek" THEN o.n ELSE p + o.n
           Step(e) == IF e # None THEN [exc |-> e, pos |-> p]
                      ELSE RunIO(L, After(Head(ops)), Tail(ops))
       IN Step(Call(Head(ops)))

----------------------------------------------------------------------------
(* The file headers *)

\* ZMF4Header::load followed by ZMF4Header::isSupported, from the current offset p
ZMF4Header_load(s, p) ==
  LET Offsets(io2) == [exc |-> io2.exc, ok |-> io2.exc = None, pos |-> io2.pos]
      Signature(io1) ==
        IF io1.exc # None THEN [exc |-> io1.exc, ok |-> FALSE, pos |-> io1.pos]
        ELSE IF s.sig8 # ZMF4_SIGNATURE THEN [exc |-> None, ok |-> FALSE, pos |-> io1.pos]
        ELSE Offsets(RunIO(s.len, io1.pos, <<Seek(28), Read(4), Read(4), Read(4)>>))
  IN Signature(RunIO(s.len, p, <<Seek(8), Read(4)>>))

ZMF4Header_isSupported(s) == s.sig8 = ZMF4_SIGNATURE

\* BMIHeader::paletteColorCount
paletteColorCount(s) == IF s.isPaletteMode # 0 THEN 2 ^ s.colorDepth ELSE 0

\* BMIHeader::load, from the current offset p
BMIHeader_load(s, p) ==
  LET pal == IF s.isPaletteMode # 0 THEN <<Skip(4 * paletteColorCount(s))>> ELSE <<>>
      offs == [i \in 1..(2 * s.offsetCount) |-> IF i % 2 = 1 THEN Read(2) ELSE Read(4)]
      Offsets(io3) == [exc |-> io3.exc, ok |-> io3.exc = None, pos |-> io3.pos]
      OffsetCount(io2) ==
        IF io2.exc # None THEN [exc |-> io2.exc, ok |-> FALSE, pos |-> io2.pos]
        ELSE IF s.offsetCount = 0 \/ s.offsetCount > 6
          THEN [exc |-> None, ok |-> FALSE, pos |-> io2.pos]
        ELSE Offsets(RunIO(s.len, io2.pos, pal \o offs))
      ColorDepth(io1) ==
        IF io1.exc # None THEN [exc |-> io1.exc, ok |-> FALSE, pos |-> io1.pos]
        ELSE IF ~(s.colorDepth \in {1, 4, 8, 24}) THEN [exc |-> None, ok |-> FALSE, pos |-> io1.pos]
        ELSE OffsetCount(RunIO(s.len, io1.pos, <<Skip(2), Read(2)>>))
  IN ColorDepth(RunIO(s.len, p, <<Read(9), Read(2), Read(2), Read(2), Read(2)>>))

\* a header that is supported whatever its signature
BMIHeader_isSupported_AnySignature(s) == TRUE

BMIHeader_isSupported(s) == s.signature = "ZonerBMIa"

\* ZBRHeader::load: the function-try-block turns every exception into false
ZBRHeader_load(s, p) ==
  LET Caught(io) == [exc |-> None, ok |-> io.exc = None, pos |-> io.pos, inner |-> io.exc]
  IN Caught(RunIO(s.len, p, <<Read(2), Read(2), Skip(100)>>))

ZBRHeader_isSupported(s) == s.sig = ZBR_SIG /\ s.version < 5

----------------------------------------------------------------------------
(* Format detection: ZMFDocument.cpp *)

\* the candidates tried in the opposite order
Candidates_Reversed == <<"ZBRHeader", "BMIHeader", "ZMF4Header">>

Candidates == <<"ZMF4Header", "BMIHeader", "ZBRHeader">>

TypeOf(cand) ==
  CASE cand = "ZMF4Header" -> "TYPE_DRAW"
    [] cand = "BMIHeader" -> "TYPE_BITMAP"
    [] cand = "ZBRHeader" -> "TYPE_ZEBRA"

KindOf(cand) ==
  CASE cand = "ZMF4Header" -> "KIND_DRAW"
    [] cand = "BMIHeader" -> "KIND_PAINT"
    [] cand = "ZBRHeader" -> "KIND_DRAW"

DetectionInfo == [m_type |-> "TYPE_UNKNOWN", m_kind |-> "KIND_UNKNOWN"]

\* THeader::load(info.m_content) && THeader::isSupported(), after seek(info.m_content, 0)
\* inner: the exception the header's own load swallowed
LoadHeader(s, cand) ==
  LET Loaded(r, isSupported) ==
        [exc |-> r.exc, valid |-> r.ok /\ isSupported,
         inner |-> IF "inner" \in DOMAIN r THEN r.inner ELSE None]
  IN CASE cand = "ZMF4Header" -> Loaded(ZMF4Header_load(s, 0), ZMF4Header_isSupported(s))
       [] cand = "BMIHeader" -> Loaded(BMIHeader_load(s, 0), BMIHeader_isSupported(s))
       [] cand = "ZBRHeader" -> Loaded(ZBRHeader_load(s, 0), ZBRHeader_isSupported(s))

\* detectFormat<THeader>: the function-try-block turns every exception into false.
\* caught: the exception the handler swallowed; thrown: the exception that leaves the function
detectFormat(s, cand) ==
  LET Handled(r) == [cand |-> cand, valid |-> r.exc = None /\ r.valid, caught |-> r.exc,
                     inner |-> r.inner, thrown |-> None]
  IN Handled(LoadHeader(s, cand))

\* the chain detectFormat<A>() || detectFormat<B>() || ... over the candidates cands
RECURSIVE detectChain(_, _, _)
detectChain(s, cands, tried) ==
  IF cands = <<>> THEN [found |-> FALSE, cand |-> None, probes |-> tried, thrown |-> None]
  ELSE LET Or(r) ==
             IF r.thrown # None
               THEN [found |-> FALSE, cand |-> None, probes |-> Append(tried, r), thrown |-> r.thrown]
             ELSE IF r.valid
               THEN [found |-> TRUE, cand |-> r.cand, probes |-> Append(tried, r), thrown |-> None]
             ELSE detectChain(s, Tail(cands), Append(tried, r))
       IN Or(detectFormat(s, Head(cands)))

\* detect that sniffs a container without a content.zmf member like a flat stream
detect_SniffsContainer(s) ==
  IF s.structured /\ s.hasContent THEN detectChain(s, <<"ZMF4Header">>, <<>>)
  ELSE detectChain(s, Candidates, <<>>)

\* detect
detect(s) ==
  IF s.structured
    THEN IF s.hasContent THEN detectChain(s, <<"ZMF4Header">>, <<>>)
         ELSE [found |-> FALSE, cand |-> None, probes |-> <<>>, thrown |-> None]
    ELSE detectChain(s, Candidates, <<>>)

\* an entry point without the catch (...): the exception leaves the call
EntryCatch_Rethrows(e) == "threw"

\* the catch (...) of the public entry points: what the call returns when exception e reaches it
EntryCatch(e) == "false"

\* the exceptions the probes of a detection raised, each caught inside detectFormat
RECURSIVE CaughtInProbes(_)
CaughtInProbes(ps) ==
  IF ps = <<>> THEN <<>>
  ELSE (IF Head(ps).caught # None THEN <<[exc |-> Head(ps).caught, at |-> "detectFormat"]>> ELSE <<>>)
       \o (IF Head(ps).inner # None THEN <<[exc |-> Head(ps).inner, at |-> "ZBRHeader::load"]>> ELSE <<>>)
       \o CaughtInProbes(Tail(ps))

----------------------------------------------------------------------------
(* The collector's life cycle: ZMFCollector.cpp *)

NewCollector ==
  [m_isDocumentStarted |-> FALSE, m_isPageStarted |-> FALSE, m_isLayerStarted |-> FALSE,
   painter |-> <<>>]

Paint(c, call) == [c EXCEPT !.painter = Append(@, call)]

startDocument(c) ==
  IF c.m_isDocumentStarted THEN c
  ELSE [Paint(c, "startDocument") EXCEPT !.m_isDocumentStarted = TRUE]

\* endLayer that clears the flag without telling the painter
endLayer_Silent(c) ==
  IF ~c.m_isLayerStarted THEN c
  ELSE [c EXCEPT !.m_isLayerStarted = FALSE]

endLayer(c) ==
  IF ~c.m_isLayerStarted THEN c
  ELSE [Paint(c, "endLayer") EXCEPT !.m_isLayerStarted = FALSE]

\* startPage that leaves a running layer running
startPage_KeepsLayer(c) ==
  IF c.m_isPageStarted THEN c
  ELSE [Paint(c, "startPage") EXCEPT !.m_isPageStarted = TRUE]

startPage(c) ==
  IF c.m_isPageStarted THEN c
  ELSE LET c1 == IF c.m_isLayerStarted THEN endLayer(c) ELSE c
       IN [Paint(c1, "startPage") EXCEPT !.m_isPageStarted = TRUE]

endPage(c) ==
  IF ~c.m_isPageStarted THEN c
  ELSE [Paint(c, "endPage") EXCEPT !.m_isPageStarted = FALSE]

\* endDocument that does not end the running page
endDocument_KeepsPage(c) ==
  IF ~c.m_isDocumentStarted THEN c
  ELSE [Paint(c, "endDocument") EXCEPT !.m_isDocumentStarted = FALSE]

endDocument(c) ==
  IF ~c.m_isDocumentStarted THEN c
  ELSE LET c1 == IF c.m_isPageStarted THEN endPage(c) ELSE c
       IN [Paint(c1, "endDocument") EXCEPT !.m_isDocumentStarted = FALSE]

\* startLayer that does not look at the flag
startLayer_Unguarded(c) == [Paint(c, "startLayer") EXCEPT !.m_isLayerStarted = TRUE]

startLayer(c) ==
  IF c.m_isLayerStarted THEN c
  ELSE [Paint(c, "startLayer") EXCEPT !.m_isLayerStarted = TRUE]

startGroup(c) == Paint(c, "openGroup")

\* endGroup that sends nothing
endGroup_Silent(c) == c

endGroup(c) == Paint(c, "closeGroup")

\* ZMFCollector::~ZMFCollector
DestroyCollector(c) == IF c.m_isDocumentStarted THEN endDocument(c) ELSE c

\* setStyle followed by collectPath: the two painter calls of a drawn path
collectPath(c) == Paint(Paint(c, "setStyle"), "drawPath")

\* a collectImage that draws without setting the style
collectImage_WithoutStyle(c) == Paint(c, "drawGraphicObject")

\* collectImage: setStyle, then drawGraphicObject
collectImage(c) == Paint(Paint(c, "setStyle"), "drawGraphicObject")

----------------------------------------------------------------------------
(* Geometry: ZMFTypes.cpp *)

Pt(x, y) == [x |-> x, y |-> y]

\* BoundingBox that only rejects lists of fewer than four points
BoundingBox_RejectsShort(points) ==
  IF Len(points) < 4
    THEN [exc |-> GenericException, m_points |-> points, center2 |-> Pt(0, 0)]
    ELSE [exc |-> None, m_points |-> points,
          center2 |-> Pt(points[1].x + points[3].x, points[1].y + points[3].y)]

\* BoundingBox::BoundingBox: the point-count check and the centre (kept doubled, to stay integral)
BoundingBox(points) ==
  IF Len(points) # 4
    THEN [exc |-> GenericException, m_points |-> points, center2 |-> Pt(0, 0)]
    ELSE [exc |-> None, m_points |-> points,
          center2 |-> Pt(points[1].x + points[3].x, points[1].y + points[3].y)]

----------------------------------------------------------------------------
(* The drawing parser: ZMF4Parser.cpp *)

ObjectHeaderSize == 28

ObjectTypes ==
  {"FILL", "BITMAP", "PAGE_START", "GUIDELINES", "PAGE_END", "LAYER_START", "LAYER_END",
   "DOCUMENT_SETTINGS", "COLOR_PALETTE", "RECTANGLE", "GROUP_START", "GROUP_END", "UNKNOWN"}

NoHeader ==
  [type |-> "UNKNOWN", size |-> 0, nextObjectOffset |-> 0, id |-> NO_ID, refObjCount |-> 0,
   refListStartOffset |-> 0, startOffset |-> 0, checked |-> FALSE]

\* readObjectHeader at offset p of a stream of length L whose bytes there decode to h
readObjectHeader(L, p, h) ==
  LET io1 == RunIO(L, p, <<Read(4), Read(1), Skip(7), Read(4), Read(4)>>)
      raw == [type |-> h.type, size |-> h.size, nextObjectOffset |-> 0, id |-> NO_ID,
              refObjCount |-> h.refObjCount, refListStartOffset |-> h.refListStartOffset,
              startOffset |-> p, checked |-> TRUE]
  IN IF io1.exc # None THEN [exc |-> io1.exc, pos |-> io1.pos, header |-> NoHeader]
     ELSE IF \/ h.size = 0
             \/ h.size > L - p
             \/ h.refListStartOffset >= h.size
             \/ h.refObjCount > (h.size - h.refListStartOffset) \div 8
       THEN [exc |-> GenericException, pos |-> io1.pos, header |-> raw]
     ELSE LET io2 == RunIO(L, io1.pos, <<Skip(4), Read(4)>>)
          IN IF io2.exc # None THEN [exc |-> io2.exc, pos |-> io2.pos, header |-> raw]
             ELSE [exc |-> None, pos |-> io2.pos,
                   header |-> [raw EXCEPT !.id = h.id,
                                          !.nextObjectOffset = p + h.size,
                                          !.refListStartOffset =
                                             IF h.refListStartOffset > 0
                                               THEN h.refListStartOffset + p
                                               ELSE 0]]

\* readObjectRefs: the reader calls it makes for header hd from offset p, the number of
\* references it reads and the offset it reads them from
readObjectRefs(L, p, hd) ==
  LET maxRaw == hd.nextObjectOffset - (p \div 8)
      maxRefObjCount == IF maxRaw < 0 THEN 0 ELSE maxRaw
      refObjCount == IF hd.refObjCount > maxRefObjCount THEN maxRefObjCount ELSE hd.refObjCount
      Refs(io) == [exc |-> io.exc, pos |-> io.pos, refObjCount |-> refObjCount,
                   start |-> hd.nextObjectOffset - 8 * refObjCount]
  IN IF refObjCount > 0
       THEN Refs(RunIO(L, p, <<Seek(hd.nextObjectOffset - 8 * refObjCount)>>
                              \o [i \in 1..(2 * refObjCount) |-> Read(4)]))
       ELSE [exc |-> None, pos |-> p, refObjCount |-> 0, start |-> p]

\* readFill: b.fillType is the u32 type field; solid colours and unknown types are modelled
readFill(L, p, hd, b, c) ==
  IF hd.id = NO_ID THEN [exc |-> None, pos |-> p, col |-> c]
  ELSE LET io1 == RunIO(L, p, <<Skip(8), Read(4)>>)
       IN IF io1.exc # None THEN [exc |-> io1.exc, pos |-> io1.pos, col |-> c]
          ELSE IF b.fillType = 1
            THEN LET io2 == RunIO(L, io1.pos, <<Skip(8), Read(1), Read(1), Read(1)>>)
                 IN [exc |-> io2.exc, pos |-> io2.pos, col |-> c]
          ELSE [exc |-> None, pos |-> io1.pos, col |-> c]

\* readBoundingBox
readBoundingBox(L, p, b) ==
  LET io == RunIO(L, p, <<Skip(8)>> \o [i \in 1..8 |-> Read(4)])
  IN IF io.exc # None THEN [exc |-> io.exc, pos |-> io.pos]
     ELSE [exc |-> BoundingBox(b.points).exc, pos |-> io.pos]

\* readRectangle: bounding box, style references, then setStyle and collectPath
readRectangle(L, p, hd, b, c) ==
  LET bb == readBoundingBox(L, p, b)
  IN IF bb.exc # None THEN [exc |-> bb.exc, pos |-> bb.pos, col |-> c]
     ELSE LET rs == readObjectRefs(L, bb.pos, hd)
          IN IF rs.exc # None THEN [exc |-> rs.exc, pos |-> rs.pos, col |-> c]
             ELSE [exc |-> None, pos |-> rs.pos, col |-> collectPath(c)]

\* readBitmap: b.hasData is the u32 flag; b.bmi are the fields of the embedded bitmap header,
\* b.bmiSize the start of its end-of-file offset record (a u32; a negative value stands
\* for 2^32 + b.bmiSize), b.payload what reading the pixel data after the header does
readBitmap(L, p, hd, b, c) ==
  IF hd.id = NO_ID THEN [exc |-> None, pos |-> p, col |-> c]
  ELSE LET io1 == RunIO(L, p, <<Skip(4), Read(4), Seek(hd.nextObjectOffset)>>)
       IN IF io1.exc # None THEN [exc |-> io1.exc, pos |-> io1.pos, col |-> c]
          ELSE IF b.hasData = 0 THEN [exc |-> None, pos |-> io1.pos, col |-> c]
          ELSE LET eh == [b.bmi EXCEPT !.len = L]
                   ld == BMIHeader_load(eh, io1.pos)
                   size == IF ld.ok THEN b.bmiSize ELSE 0
                   back == RunIO(L, ld.pos, <<Seek(U32Add(hd.nextObjectOffset, size))>>)
               IN IF ld.exc # None THEN [exc |-> ld.exc, pos |-> ld.pos, col |-> c]
                  ELSE IF ld.ok /\ BMIHeader_isSupported(eh) /\ b.payload = "short"
                    THEN [exc |-> EndOfStreamException, pos |-> ld.pos, col |-> c]
                  ELSE [exc |-> back.exc, pos |-> back.pos, col |-> c]

\* the switch of readLayer for one object of type hd.type other than LAYER_END
readLayerObject(L, p, hd, b, c) ==
  CASE hd.type = "FILL" -> readFill(L, p, hd, b, c)
    [] hd.type = "BITMAP" -> readBitmap(L, p, hd, b, c)
    [] hd.type = "RECTANGLE" -> readRectangle(L, p, hd, b, c)
    [] hd.type = "GROUP_START" -> [exc |-> None, pos |-> p, col |-> startGroup(c)]
    [] hd.type = "GROUP_END" -> [exc |-> None, pos |-> p, col |-> endGroup(c)]
    [] OTHER -> [exc |-> None, pos |-> p, col |-> c]

----------------------------------------------------------------------------
(* Inputs *)

ZMF4HeaderEnd == 40
DrawLen == ZMF4HeaderEnd + ObjectHeaderSize * MaxObjects
TooBig == DrawLen + 1

ObjSizes == {0, ObjectHeaderSize, ObjectHeaderSize + 40, TooBig}

\* the decoded fields of an object header
HeaderInputs ==
  {h \in [size : ObjSizes, type : ObjectTypes, refObjCount : {0, 1, 9},
          refListStartOffset : {0, ObjectHeaderSize}, id : {NO_ID, 1}] :
     /\ h.type \notin {"FILL", "BITMAP"} => h.id = NO_ID
     /\ h.type # "RECTANGLE" => h.refObjCount = 0 /\ h.refListStartOffset = 0}

UnitSquare == <<Pt(0, 0), Pt(1, 0), Pt(1, 1), Pt(0, 1)>>
OnePoint == <<Pt(0, 0), Pt(0, 0), Pt(0, 0), Pt(0, 0)>>

EmbeddedHeaders ==
  {[len |-> 0, signature |-> sg, colorDepth |-> d, offsetCount |-> 1, isPaletteMode |-> 0] :
     sg \in {"ZonerBMIa", "other"}, d \in {24, 7}}

DefaultBody ==
  [fillType |-> 0, hasData |-> 0,
   bmi |-> [len |-> 0, signature |-> "other", colorDepth |-> 7, offsetCount |-> 1, isPaletteMode |-> 0],
   bmiSize |-> 0, payload |-> "empty", points |-> UnitSquare]

\* the sizes an embedded bitmap header declares: none, one object header, and the two
\* values 2^32 - size that added to the end of a bitmap object of that size wrap around
\* to its start
BitmapSizes ==
  {0, ObjectHeaderSize} \cup {-z : z \in ObjSizes \ {0, TooBig}}

\* the decoded fields of the body of an object of the given type
BodiesFor(type) ==
  CASE type = "FILL" -> {[DefaultBody EXCEPT !.fillType = t] : t \in {0, 1}}
    [] type = "BITMAP" ->
         {DefaultBody} \cup
         {[DefaultBody EXCEPT !.hasData = 1, !.bmi = e, !.bmiSize = z, !.payload = pl] :
            e \in EmbeddedHeaders, z \in BitmapSizes, pl \in {"image", "empty", "short"}}
    [] type = "RECTANGLE" -> {[DefaultBody EXCEPT !.points = ps] : ps \in {UnitSquare, OnePoint}}
    [] OTHER -> {DefaultBody}

----------------------------------------------------------------------------
(* ZMFDocument::parse on a drawing: ZMF4Parser::parse and its loops, one object per step *)

\* an exception leaves ZMF4Parser::parse: the parser and its collector are destroyed,
\* and the catch (...) of ZMFDocument::parse returns
Throw(e, c, p) ==
  /\ col' = DestroyCollector(c)
  /\ pos' = p
  /\ raised' = Append(raised, [exc |-> e, at |-> "ZMFDocument::parse"])
  /\ result' = EntryCatch(e)
  /\ pc' = "returned"

\* readPage (or readDocumentSettings) returned: the test of while (!m_input->isEnd()),
\* and past the loop endDocument and return true
PageLoop(c, p) ==
  /\ pos' = p
  /\ raised' = raised
  /\ IF p >= stream.len
       THEN /\ col' = endDocument(c)
            /\ result' = "true"
            /\ pc' = "returned"
       ELSE /\ col' = c
            /\ result' = result
            /\ pc' = "readPage"

\* ZMF4Parser::parse up to the page loop
ZMF4Start ==
  /\ pc = "ZMF4Parser"
  /\ UNCHANGED <<stream, entry, info, probes, fnVars, m_pageNumber, pageStartsRead>>
  /\ \E h \in HeaderInputs :
       LET L == stream.len
           gl == checkStream(L, 0)
           ld == ZMF4Header_load(stream, 0)
           c1 == startDocument(col)
           io == IF stream.startBitmapOffset > 0
                   THEN RunIO(L, ld.pos, <<Seek(stream.startBitmapOffset), Skip(2), Read(4),
                                           Skip(U32Sub(U32Sub(stream.previewSize, 2), 4))>>)
                   ELSE RunIO(L, ld.pos, <<Seek(stream.startContentOffset)>>)
           rh == readObjectHeader(L, io.pos, h)
           ds == RunIO(L, rh.pos, <<Skip(32), Read(1), Read(1), Read(1), Skip(5), Read(4), Read(4),
                                    Skip(68), Read(4), Read(4), Seek(rh.header.nextObjectOffset)>>)
       IN IF gl # None THEN Throw(gl, col, 0) /\ hdr' = hdr
          ELSE IF ld.exc # None THEN Throw(ld.exc, col, ld.pos) /\ hdr' = hdr
          ELSE IF ~(ld.ok /\ ZMF4Header_isSupported(stream))
            THEN /\ result' = "false"
                 /\ pc' = "returned"
                 /\ pos' = ld.pos
                 /\ UNCHANGED <<col, raised, hdr>>
          ELSE IF io.exc # None THEN Throw(io.exc, c1, io.pos) /\ hdr' = hdr
          ELSE IF rh.exc # None THEN Throw(rh.exc, c1, rh.pos) /\ hdr' = rh.header
          ELSE IF rh.header.type # "DOCUMENT_SETTINGS"
            THEN Throw(GenericException, c1, rh.pos) /\ hdr' = rh.header
          ELSE IF ds.exc # None THEN Throw(ds.exc, c1, ds.pos) /\ hdr' = rh.header
          ELSE PageLoop(c1, ds.pos) /\ hdr' = rh.header

\* a parser without a master page
IsMasterPage_Never(pageNumber) == FALSE

\* readPage: the first page is the master page
IsMasterPage(pageNumber) == pageNumber = 1

\* 1 if readObjectHeader result rh is the header of a page start, else 0
PageStartsIn(rh) == IF rh.exc = None /\ rh.header.type = "PAGE_START" THEN 1 ELSE 0

\* readPage: one pass of the loop that skips colour palettes and expects a page start
ReadPageStart ==
  /\ pc = "readPage"
  /\ UNCHANGED <<stream, entry, info, probes, fnVars>>
  /\ \E h \in HeaderInputs :
       LET L == stream.len
           rh == readObjectHeader(L, pos, h)
           sk == RunIO(L, rh.pos, <<Seek(rh.header.nextObjectOffset)>>)
       IN /\ hdr' = IF rh.header = NoHeader THEN hdr ELSE rh.header
          /\ pageStartsRead' = pageStartsRead + PageStartsIn(rh)
          /\ IF rh.exc # None THEN Throw(rh.exc, col, rh.pos) /\ m_pageNumber' = m_pageNumber
             ELSE IF rh.header.type = "COLOR_PALETTE"
               THEN IF sk.exc # None THEN Throw(sk.exc, col, sk.pos) /\ m_pageNumber' = m_pageNumber
                    ELSE /\ pos' = sk.pos
                         /\ UNCHANGED <<pc, col, raised, result, m_pageNumber>>
             ELSE IF rh.header.type # "PAGE_START"
               THEN Throw(GenericException, col, rh.pos) /\ m_pageNumber' = m_pageNumber
             ELSE /\ m_pageNumber' = m_pageNumber + 1
                  /\ IF IsMasterPage(m_pageNumber + 1)
                       THEN /\ pc' = "masterPage"
                            /\ pos' = rh.pos
                            /\ UNCHANGED <<col, raised, result>>
                       ELSE IF sk.exc # None THEN Throw(sk.exc, startPage(col), sk.pos)
                            ELSE /\ col' = startPage(col)
                                 /\ pos' = sk.pos
                                 /\ pc' = "page"
                                 /\ UNCHANGED <<raised, result>>

\* readPage: one pass of the do-while that skips the first (master) page
SkipMasterPage ==
  /\ pc = "masterPage"
  /\ UNCHANGED <<stream, entry, info, probes, fnVars, m_pageNumber>>
  /\ \E h \in HeaderInputs :
       LET L == stream.len
           sk0 == RunIO(L, pos, <<Seek(hdr.nextObjectOffset)>>)
           rh == readObjectHeader(L, sk0.pos, h)
           sk == RunIO(L, rh.pos, <<Seek(rh.header.nextObjectOffset)>>)
       IN IF sk0.exc # None THEN Throw(sk0.exc, col, sk0.pos) /\ UNCHANGED <<hdr, pageStartsRead>>
          ELSE /\ hdr' = IF rh.header = NoHeader THEN hdr ELSE rh.header
               /\ pageStartsRead' = pageStartsRead + PageStartsIn(rh)
               /\ IF rh.exc # None THEN Throw(rh.exc, col, rh.pos)
                  ELSE IF rh.header.type # "PAGE_START"
                    THEN /\ pos' = rh.pos
                         /\ UNCHANGED <<pc, col, raised, result>>
                  ELSE IF sk.exc # None THEN Throw(sk.exc, startPage(col), sk.pos)
                  ELSE /\ col' = startPage(col)
                       /\ pos' = sk.pos
                       /\ pc' = "page"
                       /\ UNCHANGED <<raised, result>>

\* a page loop that steps over an object of a type it does not expect
unexpectedPageObject_Skipped(c, p) ==
  /\ col' = c
  /\ pos' = p
  /\ UNCHANGED <<pc, raised, result>>

\* readPage: the default of the switch of the page-level loop
unexpectedPageObject(c, p) == Throw(GenericException, c, p)

\* readPage: one pass of the page-level loop
ReadPageObject ==
  /\ pc = "page"
  /\ UNCHANGED <<stream, entry, info, probes, fnVars, m_pageNumber, pageStartsRead>>
  /\ \E h \in HeaderInputs :
       LET L == stream.len
           rh == readObjectHeader(L, pos, h)
           sk == RunIO(L, rh.pos, <<Seek(rh.header.nextObjectOffset)>>)
       IN /\ hdr' = IF rh.header = NoHeader THEN hdr ELSE rh.header
          /\ IF rh.exc # None THEN Throw(rh.exc, col, rh.pos)
             ELSE CASE rh.header.type = "GUIDELINES" ->
                         IF sk.exc # None THEN Throw(sk.exc, col, sk.pos)
                         ELSE /\ pos' = sk.pos
                              /\ UNCHANGED <<pc, col, raised, result>>
                    [] rh.header.type = "PAGE_END" ->
                         IF rh.pos >= L THEN PageLoop(endPage(col), rh.pos)
                         ELSE IF sk.exc # None THEN Throw(sk.exc, endPage(col), sk.pos)
                         ELSE PageLoop(endPage(col), sk.pos)
                    [] rh.header.type = "LAYER_START" ->
                         IF sk.exc # None THEN Throw(sk.exc, startLayer(col), sk.pos)
                         ELSE /\ col' = startLayer(col)
                              /\ pos' = sk.pos
                              /\ pc' = "layer"
                              /\ UNCHANGED <<raised, result>>
                    [] OTHER -> unexpectedPageObject(col, rh.pos)

\* the cursor is back at the start of the object whose header was read last
Rewound == hdr.checked /\ pos = hdr.startOffset

\* the header fields the bytes of the object read last decode to
HeaderFieldsOf(hd) ==
  [size |-> hd.nextObjectOffset - hd.startOffset, type |-> hd.type,
   refObjCount |-> hd.refObjCount, refListStartOffset |-> 0, id |-> hd.id]

\* readLayer: one pass of the layer loop.  Of the embedded sizes that wrap around, the
\* one that leads back to the start of the object is drawn; an object that is read a
\* second time decodes to what it decoded to the first time.
ReadLayerObject ==
  /\ pc = "layer"
  /\ UNCHANGED <<stream, entry, info, probes, fnVars, m_pageNumber, pageStartsRead>>
  /\ \E h \in {x \in HeaderInputs : Rewound => x = HeaderFieldsOf(hdr)} :
       \E b \in {x \in BodiesFor(h.type) :
                   /\ x.bmiSize < 0 => x.bmiSize = -h.size
                   /\ Rewound => x.hasData = 1 /\ x.bmiSize = -h.size
                                  /\ readBitmap(stream.len, pos + ObjectHeaderSize,
                                                hdr, x, col).exc = None} :
         LET L == stream.len
             rh == readObjectHeader(L, pos, h)
             hd == rh.header
             sk == RunIO(L, rh.pos, <<Seek(hd.nextObjectOffset)>>)
             ob == readLayerObject(L, rh.pos, hd, b, col)
             nx == IF hd.type # "BITMAP"
                     THEN RunIO(L, ob.pos, <<Seek(hd.nextObjectOffset)>>)
                     ELSE [exc |-> None, pos |-> ob.pos]
         IN /\ hdr' = IF hd = NoHeader THEN hdr ELSE hd
            /\ IF rh.exc # None THEN Throw(rh.exc, col, rh.pos)
               ELSE IF hd.type = "LAYER_END"
                 THEN IF sk.exc # None THEN Throw(sk.exc, col, sk.pos)
                      ELSE /\ col' = endLayer(col)
                           /\ pos' = sk.pos
                           /\ pc' = "page"
                           /\ UNCHANGED <<raised, result>>
               ELSE IF ob.exc # None THEN Throw(ob.exc, ob.col, ob.pos)
               ELSE IF nx.exc # None THEN Throw(nx.exc, ob.col, nx.pos)
               ELSE /\ col' = ob.col
                    /\ pos' = nx.pos
                    /\ UNCHANGED <<pc, raised, result>>

----------------------------------------------------------------------------
(* The other two parsers *)

\* ZBRParser::parse
ZBRParse ==
  /\ pc = "ZBRParser"
  /\ UNCHANGED <<stream, entry, info, probes, fnVars, m_pageNumber, pageStartsRead, hdr>>
  /\ LET ld == ZBRHeader_load(stream, 0)
     IN /\ pos' = ld.pos
        /\ pc' = "returned"
        /\ raised' = IF ld.inner # None
                       THEN Append(raised, [exc |-> ld.inner, at |-> "ZBRHeader::load"])
                       ELSE raised
        /\ IF ~ld.ok \/ ~ZBRHeader_isSupported(stream)
             THEN /\ result' = "false"
                  /\ col' = col
             ELSE /\ result' = "true"
                  /\ col' = DestroyCollector(endDocument(startDocument(col)))

\* what follows the header in a bitmap stream: the start of the first BITMAP offset record
\* (-1: there is none), the colour depth of the bitmap's own header, and what decoding the
\* pixel data does
BMIBodies ==
  [bitmapStart : {-1, 64, TooBig}, depth : {1, 24}, payload : {"image", "empty", "short"}]

\* BMIParser::readImage from offset p on a stream whose bytes there decode to the header
\* fields of s and to body b: the header, the first bitmap's own header and palette, then
\* the pixel data.  image is "image" for a decoded picture and "empty" for Image()
readImage(s, p, b) ==
  LET pal == IF b.depth < 24
               THEN [i \in 1..(4 * (2 ^ b.depth)) |-> IF i % 4 = 0 THEN Skip(1) ELSE Read(1)]
               ELSE <<>>
      Data(cb) ==
        IF cb.exc # None THEN [exc |-> cb.exc, pos |-> cb.pos, image |-> None]
        ELSE IF b.payload = "short" THEN [exc |-> EndOfStreamException, pos |-> cb.pos, image |-> None]
        ELSE IF b.payload = "empty" THEN [exc |-> None, pos |-> cb.pos, image |-> "empty"]
        ELSE [exc |-> None, pos |-> cb.pos, image |-> "image"]
      Bitmap(bh) ==
        IF bh.exc # None THEN [exc |-> bh.exc, pos |-> bh.pos, image |-> None]
        ELSE Data(RunIO(s.len, bh.pos, <<Seek(bh.pos + 10)>> \o pal))
      Header(ld) ==
        IF ld.exc # None THEN [exc |-> ld.exc, pos |-> ld.pos, image |-> None]
        ELSE IF ~ld.ok \/ ~BMIHeader_isSupported(s) THEN [exc |-> None, pos |-> ld.pos, image |-> "empty"]
        ELSE IF b.bitmapStart < 0 THEN [exc |-> None, pos |-> ld.pos, image |-> "empty"]
        ELSE Bitmap(RunIO(s.len, ld.pos, <<Seek(p + b.bitmapStart), Read(2), Read(2), Read(2)>>))
  IN Header(BMIHeader_load(s, p))

\* BMIParser::parse: readImage, then the eight collector calls around the one image
BMIParse ==
  /\ pc = "BMIParser"
  /\ UNCHANGED <<stream, entry, info, probes, fnVars, m_pageNumber, pageStartsRead, hdr>>
  /\ \E b \in BMIBodies :
       \E bitmap \in {readImage(stream, 0, b)} :
         IF bitmap.exc # None THEN Throw(bitmap.exc, col, bitmap.pos)
         ELSE /\ pos' = bitmap.pos
              /\ raised' = raised
              /\ pc' = "returned"
              /\ IF bitmap.image = "empty"
                   THEN /\ result' = "false"
                        /\ col' = col
                   ELSE /\ result' = "true"
                        /\ col' = DestroyCollector(endDocument(endPage(endLayer(
                                    collectImage(startLayer(startPage(startDocument(col))))))))

----------------------------------------------------------------------------
(* The public entry points: ZMFDocument.cpp *)

\* the exceptions a detection raised, with an exception that left detect() last
RaisedBy(d, entryName) ==
  CaughtInProbes(d.probes)
    \o (IF d.thrown # None THEN <<[exc |-> d.thrown, at |-> entryName]>> ELSE <<>>)

InfoOf(d) ==
  IF d.found THEN [m_type |-> TypeOf(d.cand), m_kind |-> KindOf(d.cand)] ELSE DetectionInfo

\* ZMFDocument::isSupported
IsSupported ==
  /\ pc = "call"
  /\ UNCHANGED <<stream, pos, col, m_pageNumber, pageStartsRead, hdr, fnVars>>
  /\ \E d \in {detect(stream)} :
        /\ entry' = "isSupported"
        /\ probes' = d.probes
        /\ raised' = RaisedBy(d, "ZMFDocument::isSupported")
        /\ info' = InfoOf(d)
        /\ result' = IF d.thrown # None THEN EntryCatch(d.thrown)
                     ELSE IF d.found THEN "true" ELSE "false"
        /\ pc' = "returned"

\* ZMFDocument::parse: detection, then the switch over the detected type
Parse ==
  /\ pc = "call"
  /\ UNCHANGED <<stream, pos, m_pageNumber, pageStartsRead, hdr, fnVars>>
  /\ \E d \in {detect(stream)} :
        /\ entry' = "parse"
        /\ probes' = d.probes
        /\ raised' = RaisedBy(d, "ZMFDocument::parse")
        /\ info' = InfoOf(d)
        /\ col' = NewCollector
        /\ IF d.thrown # None
             THEN /\ result' = EntryCatch(d.thrown)
                  /\ pc' = "returned"
             ELSE IF ~d.found
               THEN /\ result' = "false"
                    /\ pc' = "returned"
             ELSE /\ result' = "none"
                  /\ pc' = CASE TypeOf(d.cand) = "TYPE_DRAW" -> "ZMF4Parser"
                             [] TypeOf(d.cand) = "TYPE_ZEBRA" -> "ZBRParser"
                             [] TypeOf(d.cand) = "TYPE_BITMAP" -> "BMIParser"

----------------------------------------------------------------------------
(* The input streams *)

OtherSig8 == 97

BaseStream ==
  [structured |-> FALSE, hasContent |-> FALSE, len |-> 0, sig |-> 0, version |-> 0,
   signature |-> "other", sig8 |-> OtherSig8, isPaletteMode |-> 0, colorDepth |-> 0,
   offsetCount |-> 0, startContentOffset |-> ZMF4HeaderEnd, startBitmapOffset |-> 0,
   previewSize |-> 0]

\* flat stream, container with a content.zmf member, container without one
Containers == {<<FALSE, FALSE>>, <<TRUE, TRUE>>, <<TRUE, FALSE>>}

\* the first bytes: u16 at 0, u16 at 2, the nine bytes at 0.  "ZonerBMIa" fixes the two
\* u16 values and the low byte of the u32 at 8, so such a stream carries neither the legacy
\* nor the drawing signature
Idents ==
  {<<28506, 25966, "ZonerBMIa">>, <<ZBR_SIG, 4, "other">>, <<ZBR_SIG, 5, "other">>,
   <<0, 0, "other">>}

SniffLens == {0, 3, 10, 18, 30, 64, 104, 150}

\* streams without the drawing signature
SniffStreams ==
  {[BaseStream EXCEPT !.structured = ct[1], !.hasContent = ct[2], !.len = l,
                      !.sig = id[1], !.version = id[2], !.signature = id[3],
                      !.isPaletteMode = pm, !.colorDepth = d, !.offsetCount = oc] :
     ct \in Containers, l \in SniffLens, id \in Idents, pm \in {0, 1}, d \in {1, 8, 24, 7},
     oc \in {0, 1, 6, 7}}

\* streams with the drawing signature: short ones, and long ones with the variants of the
\* offsets in the file header
DrawStreams ==
  {[BaseStream EXCEPT !.structured = ct[1], !.hasContent = ct[2], !.len = l,
                      !.sig = sg, !.version = 4, !.sig8 = ZMF4_SIGNATURE] :
     ct \in Containers, l \in {10, 30, 104}, sg \in {0, ZBR_SIG}}
  \cup
  {[BaseStream EXCEPT !.structured = ct[1], !.hasContent = ct[2], !.len = DrawLen,
                      !.sig = sg, !.version = 4, !.sig8 = ZMF4_SIGNATURE,
                      !.startContentOffset = of[1], !.startBitmapOffset = of[2],
                      !.previewSize = of[3]] :
     ct \in {<<FALSE, FALSE>>, <<TRUE, TRUE>>}, sg \in {0, ZBR_SIG},
     of \in {<<TooBig, 0, 0>>, <<0, ZMF4HeaderEnd, 2>>}}
  \cup
  {[BaseStream EXCEPT !.len = l, !.sig8 = ZMF4_SIGNATURE,
                      !.startContentOffset = of[1], !.startBitmapOffset = of[2],
                      !.previewSize = of[3]] :
     l \in {DrawLen, DrawLen - 10},
     of \in {<<ZMF4HeaderEnd, 0, 0>>, <<0, ZMF4HeaderEnd, ObjectHeaderSize>>}}
  \cup
  {[BaseStream EXCEPT !.structured = TRUE, !.hasContent = TRUE, !.len = DrawLen - 2 * ObjectHeaderSize,
                      !.sig = ZBR_SIG, !.version = 4, !.sig8 = ZMF4_SIGNATURE]}

Streams == SniffStreams \cup DrawStreams

----------------------------------------------------------------------------
(* The specification of the two entry points *)

Init ==
  /\ stream \in Streams
  /\ entry = "none"
  /\ pc = "call"
  /\ pos = 0
  /\ col = NewCollector
  /\ m_pageNumber = 0
  /\ pageStartsRead = 0
  /\ hdr = NoHeader
  /\ info = DetectionInfo
  /\ probes = <<>>
  /\ raised = <<>>
  /\ result = "none"
  /\ fn = None
  /\ arg = None
  /\ ret = None

Next ==
  \/ IsSupported
  \/ Parse
  \/ ZBRParse
  \/ BMIParse
  \/ ZMF4Start
  \/ ReadPageStart
  \/ SkipMasterPage
  \/ ReadPageObject
  \/ ReadLayerObject

Spec == Init /\ [][Next]_vars

----------------------------------------------------------------------------
(* Pure functions, each applied once to an input drawn in the initial state *)

DocIdle ==
  /\ stream = BaseStream
  /\ entry = "none"
  /\ pc = "idle"
  /\ pos = 0
  /\ col = NewCollector
  /\ m_pageNumber = 0
  /\ pageStartsRead = 0
  /\ hdr = NoHeader
  /\ info = DetectionInfo
  /\ probes = <<>>
  /\ raised = <<>>
  /\ result = "none"

Apply(name, value) ==
  /\ fn = None
  /\ fn' = name
  /\ ret' = value
  /\ UNCHANGED <<arg, docVars>>

(* Bitmap dimensions: BMIHeader.cpp *)

\* reconcileValue that leaves the third value alone when the first two agree
reconcileValue_KeepsThird(v1, v2, v3) ==
  IF v1 = v2 THEN [ok |-> TRUE, v1 |-> v1, v2 |-> v2, v3 |-> v3]
  ELSE IF v1 = v3 THEN [ok |-> TRUE, v1 |-> v1, v2 |-> v1, v3 |-> v3]
  ELSE IF v2 = v3 THEN [ok |-> TRUE, v1 |-> v2, v2 |-> v2, v3 |-> v3]
  ELSE [ok |-> FALSE, v1 |-> v1, v2 |-> v2, v3 |-> v3]

\* reconcileValue: the result and the three references after the call
reconcileValue(v1, v2, v3) ==
  IF v1 = v2 THEN [ok |-> TRUE, v1 |-> v1, v2 |-> v2, v3 |-> IF v2 # v3 THEN v1 ELSE v3]
  ELSE IF v1 = v3 THEN [ok |-> TRUE, v1 |-> v1, v2 |-> v1, v3 |-> v3]
  ELSE IF v2 = v3 THEN [ok |-> TRUE, v1 |-> v2, v2 |-> v2, v3 |-> v3]
  ELSE [ok |-> FALSE, v1 |-> v1, v2 |-> v2, v3 |-> v3]

\* BMIHeader::reconcileWidth on header a with the two bitmap headers' widths
reconcileWidth(a) ==
  LET r == reconcileValue(a.m_width, a.colorWidth, a.transparencyWidth)
  IN [ok |-> r.ok,
      after |-> [a EXCEPT !.m_width = r.v1, !.colorWidth = r.v2, !.transparencyWidth = r.v3]]

\* BMIHeader::reconcileHeight
reconcileHeight(a) ==
  LET r == reconcileValue(a.m_height, a.colorHeight, a.transparencyHeight)
  IN [ok |-> r.ok,
      after |-> [a EXCEPT !.m_height = r.v1, !.colorHeight = r.v2, !.transparencyHeight = r.v3]]

Dims == 0..MaxDim

InitReconcile ==
  /\ DocIdle
  /\ fn = None
  /\ ret = None
  /\ arg \in [m_width : Dims, colorWidth : Dims, transparencyWidth : Dims,
              m_height : Dims, colorHeight : Dims, transparencyHeight : Dims]

ReconcileWidth == Apply("reconcileWidth", reconcileWidth(arg))

ReconcileHeight == Apply("reconcileHeight", reconcileHeight(arg))

NextReconcile == ReconcileWidth \/ ReconcileHeight

SpecReconcile == InitReconcile /\ [][NextReconcile]_vars

(* Bounding box: ZMFTypes.cpp *)

Coords == 0..1

PointLists == UNION {[1..n -> [x : Coords, y : Coords]] : n \in 0..MaxPoints}

InitBoundingBox ==
  /\ DocIdle
  /\ fn = None
  /\ ret = None
  /\ arg \in PointLists

ConstructBoundingBox == Apply("BoundingBox", BoundingBox(arg))

NextBoundingBox == ConstructBoundingBox

SpecBoundingBox == InitBoundingBox /\ [][NextBoundingBox]_vars

\* BoundingBox::BoundingBox, the rotation: atan2 of the first edge, for a first edge
\* that runs along the x axis (0 when it points to larger x or has no length, pi when
\* it points to smaller x)
rotation(points) ==
  IF points[2].x >= points[1].x THEN "0" ELSE "pi"

\* BoundingBox::BoundingBox, originalPoints: the points themselves when the rotation is
\* zero, otherwise the points rotated back about the centre (Point::rotate by -pi
\* sends p to 2 * centre - p)
originalPoints(points, center2) ==
  IF rotation(points) = "0"
    THEN points
    ELSE [i \in DOMAIN points |-> Pt(center2.x - points[i].x, center2.y - points[i].y)]

quadrant_UpperIsLargerY(p, center2) ==
  IF 2 * p.x > center2.x
    THEN (IF 2 * p.y > center2.y THEN 1 ELSE 4)
    ELSE (IF 2 * p.y > center2.y THEN 2 ELSE 3)

\* BoundingBox::quadrant: 1 and 4 right of the centre, 2 and 3 not right of it; 1 and 2
\* above the centre (smaller y), 3 and 4 not above it.  The centre is kept doubled.
quadrant(p, center2) ==
  IF 2 * p.x > center2.x
    THEN (IF 2 * p.y < center2.y THEN 1 ELSE 4)
    ELSE (IF 2 * p.y < center2.y THEN 2 ELSE 3)

\* BoundingBox::BoundingBox, the quadrants of the first two original points and the
\* mirror flags derived from them
quadrants(points) ==
  LET K(box) ==
        LET Q(orig) ==
              LET F(p1q, p2q) ==
                    [exc |-> box.exc, m_points |-> box.m_points, center2 |-> box.center2,
                     rotation |-> rotation(points),
                     m_p1Quadrant |-> p1q, m_p2Quadrant |-> p2q,
                     m_mirrorHorizontal |-> p1q \in {1, 4},
                     m_mirrorVertical |-> p1q \in {3, 4}]
              IN F(quadrant(orig[1], box.center2), quadrant(orig[2], box.center2))
        IN Q(originalPoints(points, box.center2))
  IN K(BoundingBox(points))

\* the four corners of an axis-aligned rectangle in traversal order, the first edge along
\* the x axis: from (x0, y0) to (x1, y0), then to (x1, y2) and (x0, y2)
Rectangle(x0, x1, y0, y2) == <<Pt(x0, y0), Pt(x1, y0), Pt(x1, y2), Pt(x0, y2)>>

Rectangles ==
  {Rectangle(x0, x1, y0, y2) :
     x0 \in 0..MaxCoord, x1 \in 0..MaxCoord, y0 \in 0..MaxCoord, y2 \in 0..MaxCoord}

InitQuadrant ==
  /\ DocIdle
  /\ fn = None
  /\ ret = None
  /\ arg \in {r \in Rectangles : r[1].x # r[2].x /\ r[1].y # r[4].y}

ConstructRectangle == Apply("quadrants", quadrants(arg))

NextQuadrant == ConstructRectangle

SpecQuadrant == InitQuadrant /\ [][NextQuadrant]_vars

(* Pen dash pattern: ZMF4Parser.cpp readPen, libzmf_utils.h bytesToBitset *)

\* bytesToBitset<numBytes>: bit 8*i + j of the result is bit j of data[i]; index n + 1 holds bit n
bytesToBitset(data) ==
  [n \in 1..(8 * Len(data)) |-> (data[((n - 1) \div 8) + 1] \div (2 ^ ((n - 1) % 8))) % 2 = 1]

\* std::bitset::all
all(bits) == \A n \in 1..Len(bits) : bits[n]

\* the run-length loop of readPen from bit i on
RECURSIVE dashLoop(_, _, _, _, _)
dashLoop(bits, i, curLength, prevVal, dashPattern) ==
  IF i >= 24 THEN dashPattern
  ELSE IF bits[i + 1] # prevVal
    THEN dashLoop(bits, i + 1, 1, bits[i + 1], Append(dashPattern, curLength))
    ELSE dashLoop(bits, i + 1, curLength + 1, bits[i + 1], dashPattern)

RECURSIVE accumulate(_)
accumulate(q) == IF q = <<>> THEN 0 ELSE Head(q) + accumulate(Tail(q))

\* a dash distance with a floor of 2
dashDistance_FloorTwo(dashLength, sum) ==
  IF (dashLength \div 1024) - sum < 2 THEN 2 ELSE (dashLength \div 1024) - sum

\* pen.dashDistance = (dashLength / 1024) - sum, at least 1
dashDistance(dashLength, sum) ==
  IF (dashLength \div 1024) - sum < 1 THEN 1 ELSE (dashLength \div 1024) - sum

\* the dash fields of the pen readPen builds from the 6 dash bytes and the u16 length
readPenDash(dashBytes, dashLength) ==
  LET dashBits == bytesToBitset(dashBytes)
      pattern == dashLoop(dashBits, 1, 1, TRUE, <<>>)
  IN IF all(dashBits)
       THEN [dashPattern |-> <<>>, dashDistance |-> 0]
       ELSE [dashPattern |-> pattern,
             dashDistance |-> dashDistance(dashLength, accumulate(pattern))]

\* bytes drawn for the three low dash bytes: none set, all set, alternating, half set
DashBytes == {0, 255, 85, 240}

\* the three high dash bytes, which the loop never looks at
HighBytes == {<<0, 0, 0>>, <<255, 255, 255>>, <<1, 0, 0>>}

DashLengths == {0, 1023, 1024, 3072, 24576, 65535} \cup {1024 * n : n \in 1..MaxDashDots}

InitPen ==
  /\ DocIdle
  /\ fn = None
  /\ ret = None
  /\ \E b1 \in DashBytes, b2 \in DashBytes, b3 \in DashBytes, hi \in HighBytes, len \in DashLengths :
       arg = [dashBytes |-> <<b1, b2, b3>> \o hi, dashLength |-> len]

ReadPenDash == Apply("readPen", readPenDash(arg.dashBytes, arg.dashLength))

NextPen == ReadPenDash

SpecPen == InitPen /\ [][NextPen]_vars

(* Curves: ZMF4Parser.cpp readCurveSectionTypes, readCurveComponents, readPolygon *)

LINE == "LINE"

BEZIER_CURVE == "BEZIER_CURVE"

\* the section record that ends a curve's section list
SectionsEnd == 100

\* a switch that takes every record for a line
sectionType_AlwaysLine(type) == LINE

\* the switch of readCurveSectionTypes: type 2 is a Bezier section, anything else a line
sectionType(type) == IF type = 2 THEN BEZIER_CURVE ELSE LINE

\* readCurveSectionTypes: records are the section records still in the stream (a type-2
\* record stands for its u32 and the 8 bytes skipped after it); reading past the last
\* record is a short read
RECURSIVE readCurveSectionTypes(_, _)
readCurveSectionTypes(records, sectionTypes) ==
  IF records = <<>> THEN [exc |-> EndOfStreamException, sectionTypes |-> sectionTypes, rest |-> <<>>]
  ELSE IF Head(records) = SectionsEnd
    THEN [exc |-> None, sectionTypes |-> sectionTypes, rest |-> Tail(records)]
  ELSE readCurveSectionTypes(Tail(records), Append(sectionTypes, sectionType(Head(records))))

\* the i-th point read for a curve
PointsRead(n) == [i \in 1..n |-> Pt(i, i)]

\* the last loop of readCurveComponents: one section list per curve, in order
RECURSIVE readAllSectionTypes(_, _, _)
readAllSectionTypes(curves, i, records) ==
  IF i > Len(curves) THEN [exc |-> None, curves |-> curves]
  ELSE LET r == readCurveSectionTypes(records, curves[i].sectionTypes)
       IN IF r.exc # None THEN [exc |-> r.exc, curves |-> <<>>]
          ELSE readAllSectionTypes([curves EXCEPT ![i].sectionTypes = r.sectionTypes], i + 1, r.rest)

\* readCurveComponents on a stream holding componentsCount, one point count per
\* component header that is present, the points, and then the section records
readCurveComponents(componentsCount, pointCounts, records) ==
  IF componentsCount = 0 \/ componentsCount > 10000 THEN [exc |-> None, curves |-> <<>>]
  ELSE IF Len(pointCounts) < componentsCount THEN [exc |-> EndOfStreamException, curves |-> <<>>]
  ELSE IF \E i \in 1..componentsCount : pointCounts[i] = 0 \/ pointCounts[i] > 10000
    THEN [exc |-> None, curves |-> <<>>]
  ELSE readAllSectionTypes(
         [i \in 1..componentsCount |->
            [points |-> PointsRead(pointCounts[i]), sectionTypes |-> <<>>, closed |-> FALSE]],
         1, records)

\* readPolygon from the peak count on: tell is the offset after pointsCount was read,
\* endOffset the end of the object's data
readPolygonPeak(peaksCount, pointsCount, tell, endOffset, records) ==
  IF peaksCount = 0 \/ peaksCount > 99 THEN [exc |-> None, curves |-> <<>>]
  ELSE IF pointsCount = 0 \/ tell + 8 >= endOffset \/ pointsCount > (endOffset - tell - 8) \div 12
    THEN [exc |-> None, curves |-> <<>>]
  ELSE LET r == readCurveSectionTypes(records, <<>>)
       IN IF r.exc # None THEN [exc |-> r.exc, curves |-> <<>>]
          ELSE [exc |-> None,
                curves |-> <<[points |-> PointsRead(pointsCount),
                              sectionTypes |-> r.sectionTypes, closed |-> FALSE]>>]

RecordValues == {1, 2, 7, SectionsEnd}

RecordLists == UNION {[1..n -> RecordValues] : n \in 0..MaxSections}

PointCounts == {0, 1, MaxCurvePoints, 10001}

CountLists == UNION {[1..n -> PointCounts] : n \in 0..2}

\* offset of the peak point count's end in a polygon object: header, bounding box, two u32
PolygonTell == 28 + 8 + 32 + 8

InitCurve ==
  /\ DocIdle
  /\ fn = None
  /\ ret = None
  /\ \/ \E cc \in {0, 1, 2, 10001}, pcs \in CountLists, rs \in RecordLists :
          /\ cc \in {1, 2} => Len(pcs) = cc
          /\ cc \notin {1, 2} => pcs = <<>>
          /\ arg = [kind |-> "curve", componentsCount |-> cc, pointCounts |-> pcs, records |-> rs]
     \/ \E pk \in {0, 3, 100}, n \in PointCounts \ {10001}, rs \in RecordLists,
           room \in {0, 1, MaxCurvePoints} :
          arg = [kind |-> "polygon", peaksCount |-> pk, pointsCount |-> n,
                 endOffset |-> PolygonTell + 8 + 12 * room, records |-> rs]

ReadCurveComponents ==
  /\ arg.kind = "curve"
  /\ Apply("readCurveComponents",
           readCurveComponents(arg.componentsCount, arg.pointCounts, arg.records))

ReadPolygonPeak ==
  /\ arg.kind = "polygon"
  /\ Apply("readPolygon",
           readPolygonPeak(arg.peaksCount, arg.pointsCount, PolygonTell, arg.endOffset, arg.records))

NextCurve == ReadCurveComponents \/ ReadPolygonPeak

SpecCurve == InitCurve /\ [][NextCurve]_vars

(* Bitmap header acceptance: BMIHeader.cpp, ZMFDocument.cpp detect, BMIParser.cpp readImage *)

BitmapLens == {0, 10, 18, 30, 64, 104}

\* flat streams that start like a bitmap header, with and without the signature
BitmapHeaderStreams ==
  {[BaseStream EXCEPT !.len = l, !.sig = id[1], !.version = id[2], !.signature = id[3],
                      !.isPaletteMode = pm, !.colorDepth = d, !.offsetCount = oc] :
     l \in BitmapLens, id \in {<<28506, 25966, "ZonerBMIa">>, <<0, 0, "other">>},
     pm \in {0, 1}, d \in {1, 4, 8, 24, 7}, oc \in {0, 1, 6, 7}}

InitBitmapHeader ==
  /\ DocIdle
  /\ fn = None
  /\ ret = None
  /\ \E s \in BitmapHeaderStreams, b \in BMIBodies : arg = [s |-> s, b |-> b]

LoadBitmapHeader ==
  \E ld \in {BMIHeader_load(arg.s, 0)} :
    Apply("BMIHeader", [exc |-> ld.exc,
                        accepted |-> ld.exc = None /\ ld.ok /\ BMIHeader_isSupported(arg.s)])

DetectBitmap == Apply("detect", InfoOf(detect(arg.s)))

ReadImage == Apply("readImage", readImage(arg.s, 0, arg.b))

NextBitmapHeader == LoadBitmapHeader \/ DetectBitmap \/ ReadImage

SpecBitmapHeader == InitBitmapHeader /\ [][NextBitmapHeader]_vars

(* Pens, arrows and the style of a shape: ZMF4Parser.cpp getByRefId, readPen, readArrow,
   readStyle; ZMFCollector.cpp writeStyle, writePen.  ret is the parser: its pen and arrow
   tables, the style written for the last shape, and for every stored pen the arrow
   references its object named that the arrow table did not hold at that moment *)

\* getByRefId: an optional value, here the set of the table's entry or the empty set;
\* arrows are known by the id they were stored under
getByRefId(id, idObjMap) ==
  IF id = NO_ID THEN {}
  ELSE IF id \in DOMAIN idObjMap THEN {idObjMap[id]}
  ELSE {}

\* an arrow lookup that answers with an arrow of that id although the table holds none
getArrowByRefId_FindsMissing(id, m_arrows) == IF id = NO_ID THEN {} ELSE {id}

\* getArrowByRefId: a null pointer stands for the missing arrow
getArrowByRefId(id, m_arrows) == getByRefId(id, m_arrows)

\* Pen::Pen
NewPen == [startArrow |-> {}, endArrow |-> {}, isInvisible |-> FALSE]

\* the loop of readPen over the references refs, from reference i on
RECURSIVE penArrows(_, _, _, _)
penArrows(pen, refs, i, m_arrows) ==
  IF i > Len(refs) THEN pen
  ELSE IF refs[i].tag = 0
    THEN penArrows([pen EXCEPT !.startArrow = getArrowByRefId(refs[i].id, m_arrows)], refs, i + 1, m_arrows)
  ELSE IF refs[i].tag = 1
    THEN penArrows([pen EXCEPT !.endArrow = getArrowByRefId(refs[i].id, m_arrows)], refs, i + 1, m_arrows)
  ELSE penArrows(pen, refs, i + 1, m_arrows)

\* the loop of readStyle: the pen of the last reference with tag 2
RECURSIVE stylePen(_, _, _, _)
stylePen(pen, refs, i, m_pens) ==
  IF i > Len(refs) THEN pen
  ELSE IF refs[i].tag = 2 THEN stylePen(getByRefId(refs[i].id, m_pens), refs, i + 1, m_pens)
  ELSE stylePen(pen, refs, i + 1, m_pens)

\* writeStyle and writePen, for a pen without dashes: the stroke and the two arrow markers
writeStyle(pen) ==
  IF pen = {} THEN [stroke |-> "none", markerStart |-> {}, markerEnd |-> {}]
  ELSE LET p == CHOOSE q \in pen : TRUE
       IN [stroke |-> "solid", markerStart |-> p.startArrow, markerEnd |-> p.endArrow]

StyleIds == {1, 2}

RefLists(tags) == UNION {[1..n -> [id : StyleIds, tag : tags]] : n \in 0..2}

\* ZMF4Parser::ZMF4Parser: the pen with id 1 is there from the start
NewStyleParser ==
  [m_pens |-> (1 :> [NewPen EXCEPT !.isInvisible = TRUE]), m_arrows |-> <<>>,
   missing |-> (1 :> {}), style |-> writeStyle({}), penRef |-> NO_ID, n |-> 0]

InitStyle ==
  /\ DocIdle
  /\ fn = None
  /\ arg = None
  /\ ret = NewStyleParser

\* readArrow for an object of id id
ReadArrowObject ==
  /\ ret.n < MaxStyleObjects
  /\ \E id \in StyleIds \cup {NO_ID} :
       /\ fn' = "readArrow"
       /\ arg' = [id |-> id]
       /\ ret' = IF id = NO_ID THEN [ret EXCEPT !.n = @ + 1]
                 ELSE [ret EXCEPT !.n = @ + 1, !.m_arrows = (id :> id) @@ @]
  /\ UNCHANGED docVars

\* readPen for an object of id id whose reference list is refs
ReadPenObject ==
  /\ ret.n < MaxStyleObjects
  /\ \E id \in StyleIds \cup {NO_ID}, refs \in RefLists({0, 1, 2}) :
       /\ fn' = "readPen"
       /\ arg' = [id |-> id, refs |-> refs]
       /\ ret' = IF id = NO_ID THEN [ret EXCEPT !.n = @ + 1]
                 ELSE [ret EXCEPT
                         !.n = @ + 1,
                         !.m_pens = (id :> penArrows(NewPen, refs, 1, ret.m_arrows)) @@ @,
                         !.missing = (id :> {<<refs[i].tag, refs[i].id>> :
                                               i \in {j \in 1..Len(refs) :
                                                        /\ refs[j].tag \in {0, 1}
                                                        /\ refs[j].id \notin DOMAIN ret.m_arrows}}) @@ @]
  /\ UNCHANGED docVars

\* a shape: readStyle over its reference list refs, then the style the collector writes
ReadShapeObject ==
  /\ ret.n < MaxStyleObjects
  /\ \E refs \in RefLists({2, 3}) :
       /\ fn' = "readStyle"
       /\ arg' = [id |-> NO_ID, refs |-> refs]
       /\ ret' = [ret EXCEPT !.n = @ + 1,
                             !.style = writeStyle(stylePen({}, refs, 1, ret.m_pens)),
                             !.penRef = IF \E i \in 1..Len(refs) : refs[i].tag = 2
                                          THEN refs[CHOOSE i \in 1..Len(refs) :
                                                      /\ refs[i].tag = 2
                                                      /\ \A j \in (i + 1)..Len(refs) : refs[j].tag # 2].id
                                          ELSE NO_ID]
  /\ UNCHANGED docVars

NextStyle == ReadArrowObject \/ ReadPenObject \/ ReadShapeObject

SpecStyle == InitStyle /\ [][NextStyle]_vars

(* The collector's operations called in any order: ZMFCollector.cpp.  arg is the
   collector, ret the collector before the last call, after it, and after calling the
   same operation once more *)

InitCollector ==
  /\ DocIdle
  /\ fn = None
  /\ arg = NewCollector
  /\ ret = [before |-> NewCollector, once |-> NewCollector, twice |-> NewCollector]

Called(name, once, twice) ==
  /\ Len(arg.painter) < MaxCalls
  /\ fn' = name
  /\ arg' = once
  /\ ret' = [before |-> arg, once |-> once, twice |-> twice]
  /\ UNCHANGED docVars

CallStartDocument == Called("startDocument", startDocument(arg), startDocument(startDocument(arg)))

CallStartPage == Called("startPage", startPage(arg), startPage(startPage(arg)))

CallStartLayer == Called("startLayer", startLayer(arg), startLayer(startLayer(arg)))

CallStartGroup == Called("startGroup", startGroup(arg), startGroup(startGroup(arg)))

CallEndGroup == Called("endGroup", endGroup(arg), endGroup(endGroup(arg)))

CallEndLayer == Called("endLayer", endLayer(arg), endLayer(endLayer(arg)))

CallEndPage == Called("endPage", endPage(arg), endPage(endPage(arg)))

CallEndDocument == Called("endDocument", endDocument(arg), endDocument(endDocument(arg)))

NextCollector ==
  \/ CallStartDocument
  \/ CallStartPage
  \/ CallStartLayer
  \/ CallStartGroup
  \/ CallEndGroup
  \/ CallEndLayer
  \/ CallEndPage
  \/ CallEndDocument

SpecCollector == InitCollector /\ [][NextCollector]_vars

----------------------------------------------------------------------------
(* One pass of the layer loop over a resource object, with the id tables: ZMF4Parser.cpp *)

ResourceTypes ==
  {"FILL", "TRANSPARENCY", "PEN", "SHADOW", "ARROW", "FONT", "PARAGRAPH", "TEXT", "BITMAP"}

TableNames ==
  {"m_fills", "m_transparencies", "m_pens", "m_shadows", "m_arrows", "m_fonts",
   "m_paragraphStyles", "m_texts", "m_images"}

\* the id table the reader of an object type stores into
TableOf(type) ==
  CASE type = "FILL" -> "m_fills"
    [] type = "TRANSPARENCY" -> "m_transparencies"
    [] type = "PEN" -> "m_pens"
    [] type = "SHADOW" -> "m_shadows"
    [] type = "ARROW" -> "m_arrows"
    [] type = "FONT" -> "m_fonts"
    [] type = "PARAGRAPH" -> "m_paragraphStyles"
    [] type = "TEXT" -> "m_texts"
    [] type = "BITMAP" -> "m_images"

\* ZMF4Parser::ZMF4Parser: the fill with id 3 and the pen with id 1 are there from the
\* start.  A table maps an id to the offset of the object stored under it (0: preset).
NewTables ==
  [t \in TableNames |->
     CASE t = "m_fills" -> (3 :> 0)
       [] t = "m_pens" -> (1 :> 0)
       [] OTHER -> <<>>]

\* m_table[id] = object
Store(tables, type, id, p) ==
  [tables EXCEPT ![TableOf(type)] = (id :> p) @@ @]

\* the fields of fixed length that the reader of an object type reads first; b.kind is
\* the u32 type field of a fill, a transparency or a shadow
fixedFields(type, b) ==
  CASE type \in {"FILL", "TRANSPARENCY"} ->
         <<Skip(8), Read(4)>> \o
         (IF b.kind = 1 THEN <<Skip(8), Read(1), Read(1), Read(1)>> ELSE <<>>)
    [] type = "PEN" -> <<Skip(12), Read(4)>>
    [] type = "SHADOW" ->
         <<Skip(8), Read(4), Read(4), Read(4), Read(4)>> \o
         (IF b.kind = 1 THEN <<Skip(4), Read(1), Read(1), Read(1)>> ELSE <<>>)
    [] type = "ARROW" -> <<Skip(4), Read(4), Skip(12)>>
    [] type = "FONT" -> <<Skip(4), Read(1), Skip(3), Read(4), Skip(4), Read(32)>>
    [] type = "PARAGRAPH" -> <<Skip(4), Read(1), Skip(3), Read(4)>>
    [] type = "TEXT" ->
         <<Skip(12), Read(4)>> \o (IF b.kind = 0 THEN <<>> ELSE <<Skip(4)>>)

\* whether the reader gets as far as its assignment to the table: a fill and a
\* transparency of a type other than 1 and a text of no paragraphs (b.kind) are left out
reachesStore(type, b) ==
  IF type \in {"FILL", "TRANSPARENCY", "TEXT"} THEN b.kind # 0 ELSE TRUE

\* get(m_currentObjectHeader.id) of readText, which does not test the id first: for a
\* header without an id the read of the empty optional either fails its assertion or
\* yields whatever value its storage holds
IdOfText(hd, ub) ==
  IF hd.id # NO_ID THEN [kind |-> "store", key |-> hd.id] ELSE ub

\* readFill, readTransparency, readPen, readShadow, readArrow, readFont,
\* readParagraphStyle and readText: the test of the id, the fields of fixed length, the
\* b.tail bytes of the fields of variable length, the assignment to the table
readResource(L, p, hd, b, tables, ub) ==
  IF hd.type # "TEXT" /\ hd.id = NO_ID THEN [exc |-> None, pos |-> p, tables |-> tables]
  ELSE LET K(io) ==
             IF io.exc # None THEN [exc |-> io.exc, pos |-> io.pos, tables |-> tables]
             ELSE IF ~reachesStore(hd.type, b) THEN [exc |-> None, pos |-> io.pos, tables |-> tables]
             ELSE IF hd.type # "TEXT"
               THEN [exc |-> None, pos |-> io.pos, tables |-> Store(tables, hd.type, hd.id, hd.startOffset)]
             ELSE LET T(k) ==
                        IF k.kind = "assert"
                          THEN [exc |-> AssertionFailed, pos |-> io.pos, tables |-> tables]
                          ELSE [exc |-> None, pos |-> io.pos,
                                tables |-> Store(tables, "TEXT", k.key, hd.startOffset)]
                  IN T(IdOfText(hd, ub))
       IN K(RunIO(L, p, fixedFields(hd.type, b) \o
                         (IF reachesStore(hd.type, b) /\ b.tail > 0 THEN <<Read(b.tail)>> ELSE <<>>)))

\* readBitmap with the table of images: the image is stored when it has data
readBitmapResource(L, p, hd, b, tables) ==
  LET K(r) ==
        [exc |-> r.exc, pos |-> r.pos,
         tables |-> IF /\ r.exc = None
                       /\ hd.id # NO_ID
                       /\ b.bitmap.hasData # 0
                       /\ BMIHeader_load([b.bitmap.bmi EXCEPT !.len = L], hd.nextObjectOffset).ok
                       /\ BMIHeader_isSupported(b.bitmap.bmi)
                       /\ b.bitmap.payload = "image"
                      THEN Store(tables, "BITMAP", hd.id, hd.startOffset)
                      ELSE tables]
  IN K(readBitmap(L, p, hd, b.bitmap, NewCollector))

\* readLayer: one pass of its loop over a resource object at offset p whose header
\* decodes to h: readObjectHeader, the reader of the type, and the seek to the end of the
\* object that a bitmap is exempt from.  None of it calls the collector c.
readLayerResource(L, p, h, b, tables, c, ub) ==
  LET H(rh) ==
        IF rh.exc # None
          THEN [exc |-> rh.exc, pos |-> rh.pos, tables |-> tables, col |-> c, header |-> rh.header]
        ELSE LET R(r) ==
                   IF r.exc # None \/ h.type = "BITMAP"
                     THEN [exc |-> r.exc, pos |-> r.pos, tables |-> r.tables, col |-> c,
                           header |-> rh.header]
                     ELSE LET S(sk) ==
                                [exc |-> sk.exc, pos |-> sk.pos, tables |-> r.tables, col |-> c,
                                 header |-> rh.header]
                          IN S(RunIO(L, r.pos, <<Seek(rh.header.nextObjectOffset)>>))
             IN R(IF h.type = "BITMAP"
                    THEN readBitmapResource(L, rh.pos, rh.header, b, tables)
                    ELSE readResource(L, rh.pos, rh.header, b, tables, ub))
  IN H(readObjectHeader(L, p, h))

\* where the resource object starts: right behind the file header
ResourceStart == ZMF4HeaderEnd

ResourceIds == {1, 3}

ResourceHeaders ==
  [size : {ObjectHeaderSize, ObjectHeaderSize + 40}, type : ResourceTypes, refObjCount : {0},
   refListStartOffset : {0}, id : ResourceIds \cup {NO_ID}]

ResourceBodies ==
  [kind : {0, 1}, tail : {0, MaxTail},
   bitmap : {DefaultBody,
             [DefaultBody EXCEPT !.hasData = 1, !.payload = "image",
                                 !.bmi = [@ EXCEPT !.signature = "ZonerBMIa", !.colorDepth = 24]]}]

\* the tables of a new parser, and tables that hold every id already
ResourceTables ==
  {NewTables, [t \in TableNames |-> [id \in ResourceIds |-> 0]]}

\* the outcomes of reading the empty optional
EmptyOptionalReads ==
  {[kind |-> "assert", key |-> 0]} \cup {[kind |-> "store", key |-> k] : k \in {0} \cup ResourceIds}

InitResource ==
  /\ DocIdle
  /\ fn = None
  /\ ret = None
  /\ arg \in [L : {ResourceStart + ObjectHeaderSize + 40, ResourceStart + 200},
              h : ResourceHeaders, b : ResourceBodies, tables : ResourceTables]

ReadResourceObject ==
  \E ub \in EmptyOptionalReads :
    Apply("readLayer",
          readLayerResource(arg.L, ResourceStart, arg.h, arg.b, arg.tables, NewCollector, ub))

NextResource == ReadResourceObject

SpecResource == InitResource /\ [][NextResource]_vars

----------------------------------------------------------------------------
(* The reference list of one object: ZMF4Parser::readObjectRefs *)

\* the decoded header fields of an object with references: sizes of one object header
\* plus room for up to MaxRefs + 2 references, list offsets from the end of the header on
RefHeaders ==
  [size : {ObjectHeaderSize + 8 * n : n \in 0..(MaxRefs + 2)}, type : {"RECTANGLE"},
   refObjCount : 0..(MaxRefs + 1),
   refListStartOffset : {0} \cup {ObjectHeaderSize + 8 * n : n \in 0..(MaxRefs + 1)},
   id : {NO_ID}]

InitRefs ==
  /\ DocIdle
  /\ fn = None
  /\ ret = None
  /\ arg \in [L : {ResourceStart + ObjectHeaderSize + 8 * (MaxRefs + 2), ResourceStart + 200},
              h : RefHeaders, consumed : {0, 8}]

\* readObjectHeader at the start of the object, a handler that reads arg.consumed bytes,
\* then readObjectRefs
headerAndRefs(L, p, h, consumed) ==
  LET H(rh) ==
        IF rh.exc # None
          THEN [exc |-> rh.exc, header |-> rh.header, pos |-> rh.pos, refObjCount |-> 0,
                start |-> rh.pos]
        ELSE LET B(io) ==
                   IF io.exc # None
                     THEN [exc |-> io.exc, header |-> rh.header, pos |-> io.pos, refObjCount |-> 0,
                           start |-> io.pos]
                     ELSE LET R(rs) ==
                                [exc |-> rs.exc, header |-> rh.header, pos |-> rs.pos,
                                 refObjCount |-> rs.refObjCount, start |-> rs.start]
                          IN R(readObjectRefs(L, io.pos, rh.header))
             IN B(RunIO(L, rh.pos, IF consumed > 0 THEN <<Read(consumed)>> ELSE <<>>))
  IN H(readObjectHeader(L, p, h))

ReadObjectRefs ==
  Apply("readObjectRefs", headerAndRefs(arg.L, ResourceStart, arg.h, arg.consumed))

NextRefs == ReadObjectRefs

SpecRefs == InitRefs /\ [][NextRefs]_vars

----------------------------------------------------------------------------
(* The gradient of a fill: ZMF4Parser::readGradient *)

\* 2^28: the stop counts from here on are those whose product with 16 leaves 32 bits.
\* A stop count is held as [hi, lo], the u32 value hi * 2^28 + lo with hi in 0..15.
TwoTo28 == 268435456

\* stopCount * 16 in uint32_t
U32Mul16(n) == 16 * n.lo

\* x < stopCount, for a long x from 0 to 2^31 - 1
LongLessU32(x, n) == IF n.hi >= 8 THEN TRUE ELSE x < n.hi * TwoTo28 + n.lo

\* the fields of one gradient stop
stopFields == <<Skip(4), Read(1), Read(1), Read(1), Skip(5), Read(4)>>

\* the loop of readGradient over the stops, from offset p: the stops that are whole
\* before the end of the stream are read, and the first one that is not raises
readStops(L, p, n) ==
  LET whole == IF L > p THEN (L - p) \div 16 ELSE 0
      Last(io) == [exc |-> io.exc, pos |-> io.pos, stops |-> whole]
  IN IF n.hi = 0 /\ n.lo <= whole
       THEN [exc |-> None, pos |-> p + 16 * n.lo, stops |-> n.lo]
       ELSE Last(RunIO(L, p + 16 * whole, stopFields))

\* readGradient from offset p for header hd and stop count n: the number of stops read
\* and the offset behind the last byte read
readGradient(L, p, hd, n) ==
  LET Count(io1) ==
        IF io1.exc # None THEN [exc |-> io1.exc, pos |-> io1.pos, stops |-> 0]
        ELSE IF \/ io1.pos + 20 + U32Mul16(n) > hd.nextObjectOffset
                \/ LongLessU32(io1.pos + 20 + U32Mul16(n), n)
          THEN [exc |-> None, pos |-> io1.pos, stops |-> 0]
        ELSE LET Fixed(io2) ==
                   IF io2.exc # None THEN [exc |-> io2.exc, pos |-> io2.pos, stops |-> 0]
                   ELSE readStops(L, io2.pos, n)
             IN Fixed(RunIO(L, io1.pos, <<Skip(4), Read(4), Read(4), Read(4), Skip(4)>>))
  IN Count(RunIO(L, p, <<Skip(4), Read(4)>>))

\* readObjectHeader and readFill for a fill of a gradient type, up to the gradient
fillGradient(L, p, h, n) ==
  LET H(rh) ==
        IF rh.exc # None
          THEN [exc |-> rh.exc, pos |-> rh.pos, stops |-> 0, header |-> rh.header]
        ELSE LET T(io) ==
                   IF io.exc # None
                     THEN [exc |-> io.exc, pos |-> io.pos, stops |-> 0, header |-> rh.header]
                     ELSE LET G(g) == [exc |-> g.exc, pos |-> g.pos, stops |-> g.stops,
                                       header |-> rh.header]
                          IN G(readGradient(L, io.pos, rh.header, n))
             IN T(RunIO(L, rh.pos, <<Skip(8), Read(4)>>))
  IN H(readObjectHeader(L, p, h))

\* bytes of a gradient fill object before its stops: the object header, the fill's type,
\* the stop count and the 20 bytes of centre and angle
GradientFixedSize == ObjectHeaderSize + 12 + 8 + 20

\* a fill object near the start of the stream, or one that starts 2^28 bytes into it
GradientStarts == {ZMF4HeaderEnd, TwoTo28}

StopCounts == [hi : {0, 1, 15}, lo : 0..(MaxStops + 1)]

InitGradient ==
  /\ DocIdle
  /\ fn = None
  /\ ret = None
  /\ \E start \in GradientStarts, fit \in 0..MaxStops, more \in {0, 8, 16 * (MaxStops + 2)},
        n \in StopCounts :
       arg = [start |-> start, n |-> n,
              h |-> [size |-> GradientFixedSize + 16 * fit, type |-> "FILL", refObjCount |-> 0,
                     refListStartOffset |-> 0, id |-> 1],
              L |-> start + GradientFixedSize + 16 * fit + more]

ReadGradient == Apply("readGradient", fillGradient(arg.L, arg.start, arg.h, arg.n))

NextGradient == ReadGradient

SpecGradient == InitGradient /\ [][NextGradient]_vars

----------------------------------------------------------------------------
(* The compressed blocks of a bitmap: BMIParser::readData and uncompress *)

\* a block is [size, inflate, out]: the u16 size of its compressed bytes, how inflate
\* ends on them (Z_STREAM_END or an error code) and the bytes it has written by then
Block(size, inflate, out) == [size |-> size, inflate |-> inflate, out |-> out]

\* uncompress that hands over what a failed block had inflated so far
uncompress_KeepsPartial(i, block, data) ==
  IF block.out = 0 THEN [ok |-> FALSE, data |-> data]
  ELSE [ok |-> TRUE, data |-> Append(data, [block |-> i, bytes |-> block.out])]

\* uncompress, for the i-th block: an error zeroes total_out, and no output is a failure;
\* otherwise the inflated bytes are appended to data
uncompress(i, block, data) ==
  LET total_out == IF block.inflate = "Z_STREAM_END" THEN block.out ELSE 0
  IN IF total_out = 0 THEN [ok |-> FALSE, data |-> data]
     ELSE [ok |-> TRUE, data |-> Append(data, [block |-> i, bytes |-> total_out])]

\* readData from offset p up to endOffset, the i-th block next
RECURSIVE readData(_, _, _, _, _, _)
readData(L, p, endOffset, blocks, i, data) ==
  IF ~(p < endOffset) THEN [exc |-> None, pos |-> p, data |-> data, read |-> i - 1]
  ELSE IF i > Len(blocks)
    THEN [exc |-> EndOfStreamException, pos |-> p, data |-> <<>>, read |-> i - 1]
  ELSE LET Inflated(io, u) ==
             IF io.exc # None THEN [exc |-> io.exc, pos |-> io.pos, data |-> <<>>, read |-> i - 1]
             ELSE IF ~u.ok THEN [exc |-> None, pos |-> io.pos, data |-> <<>>, read |-> i]
             ELSE readData(L, io.pos, endOffset, blocks, i + 1, u.data)
       IN Inflated(RunIO(L, p, <<Read(2), Skip(1), Read(blocks[i].size)>>),
                   uncompress(i, blocks[i], data))

\* an empty block cannot be inflated; a block of bytes ends the stream with output, ends
\* it without output, or fails after some output or after none
Blocks ==
  {Block(0, "Z_BUF_ERROR", 0)} \cup
  {Block(4, z, out) : z \in {"Z_STREAM_END", "Z_DATA_ERROR"}, out \in {0, 2}}

BlockLists == UNION {[1..n -> Blocks] : n \in 0..MaxBlocks}

\* where the i-th block of a list that starts at offset p starts
RECURSIVE BlockStart(_, _, _)
BlockStart(blocks, i, p) ==
  IF i <= 1 THEN p ELSE BlockStart(blocks, i - 1, p) + 3 + blocks[i - 1].size

DataStart == 64

InitData ==
  /\ DocIdle
  /\ fn = None
  /\ ret = None
  /\ \E blocks \in BlockLists, whole \in BOOLEAN :
       arg = [blocks |-> blocks,
              L |-> BlockStart(blocks, Len(blocks) + 1, DataStart),
              endOffset |-> IF whole THEN BlockStart(blocks, Len(blocks) + 1, DataStart)
                            ELSE DataStart + 1]

ReadData == Apply("readData", readData(arg.L, DataStart, arg.endOffset, arg.blocks, 1, <<>>))

NextData == ReadData

SpecData == InitData /\ [][NextData]_vars

(* Paths: ZMFCollector.cpp createPath, collectPolygon *)

\* what curve.points[i] yields when i is past the end of the vector
OutOfBounds == Pt(-1, -1)

\* curve.points[i], i counted from 0
pointAt(points, i) == IF i < Len(points) THEN points[i + 1] ELSE OutOfBounds

\* one entry of the path: its path-action (None for a property list left empty) and
\* the points it names, in the order x1/y1, x2/y2, x/y
PathPart(action, points) == [action |-> action, points |-> points]

\* a section switch whose Bezier case tests only that the first control point exists
sectionPart_ChecksFirstPointOnly(type, points, i) ==
  IF type = BEZIER_CURVE
    THEN IF i >= Len(points) THEN [part |-> PathPart(None, <<>>), i |-> i]
         ELSE [part |-> PathPart("C", <<pointAt(points, i), pointAt(points, i + 1),
                                        pointAt(points, i + 2)>>),
               i |-> i + 3]
    ELSE IF i >= Len(points) THEN [part |-> PathPart(None, <<>>), i |-> i]
         ELSE [part |-> PathPart("L", <<pointAt(points, i)>>), i |-> i + 1]

\* the switch of createPath for one section: the entry appended after it and the next i
sectionPart(type, points, i) ==
  IF type = BEZIER_CURVE
    THEN IF i + 2 >= Len(points) THEN [part |-> PathPart(None, <<>>), i |-> i]
         ELSE [part |-> PathPart("C", <<pointAt(points, i), pointAt(points, i + 1),
                                        pointAt(points, i + 2)>>),
               i |-> i + 3]
    ELSE IF i >= Len(points) THEN [part |-> PathPart(None, <<>>), i |-> i]
         ELSE [part |-> PathPart("L", <<pointAt(points, i)>>), i |-> i + 1]

\* the loop of createPath over curve.sectionTypes, from section k on
RECURSIVE sectionParts(_, _, _, _)
sectionParts(points, sectionTypes, k, i) ==
  IF k > Len(sectionTypes) THEN <<>>
  ELSE LET K(r) == <<r.part>> \o sectionParts(points, sectionTypes, k + 1, r.i)
       IN K(sectionPart(sectionTypes[k], points, i))

\* the body of createPath's loop for one curve
curvePath(curve) ==
  IF Len(curve.points) < 2 THEN <<>>
  ELSE <<PathPart("M", <<pointAt(curve.points, 0)>>)>>
         \o sectionParts(curve.points, curve.sectionTypes, 1, 1)
         \o (IF curve.closed THEN <<PathPart("Z", <<>>)>> ELSE <<>>)

RECURSIVE createPath(_)
createPath(curves) ==
  IF curves = <<>> THEN <<>>
  ELSE curvePath(Head(curves)) \o createPath(Tail(curves))

\* a point of the polygon's side rotated by turns * peakAngle around the center
Turned(point, turns) == [point |-> point, turns |-> turns]

\* a polygon loop that copies every side whole
firstOfCopy_KeepsAll(i) == 0

\* collectPolygon: the index of the side's first point copied in turn i
firstOfCopy(i) == IF i = 0 THEN 0 ELSE 1

\* collectPolygon's loop from turn i on: the points of polygonCurve
RECURSIVE polygonPoints(_, _, _)
polygonPoints(side, peaksCount, i) ==
  IF i >= peaksCount THEN <<>>
  ELSE [j \in 1..(Len(side) - firstOfCopy(i)) |-> Turned(pointAt(side, firstOfCopy(i) + j - 1), i)]
         \o polygonPoints(side, peaksCount, i + 1)

RECURSIVE polygonSections(_, _, _)
polygonSections(sectionTypes, peaksCount, i) ==
  IF i >= peaksCount THEN <<>>
  ELSE sectionTypes \o polygonSections(sectionTypes, peaksCount, i + 1)

\* collectPolygon: the curve it builds and the path collectPath draws for it; fitting to
\* the radii, mirroring and rotating move every point and change neither their number
\* nor their order
collectPolygon(peaksCount, peak) ==
  IF Len(peak.points) < 2 THEN [drawn |-> FALSE, curve |-> None, path |-> <<>>]
  ELSE LET K(c) == [drawn |-> TRUE, curve |-> c, path |-> createPath(<<c>>)]
       IN K([points |-> polygonPoints(peak.points, peaksCount, 0),
             sectionTypes |-> polygonSections(peak.sectionTypes, peaksCount, 0),
             closed |-> TRUE])

\* largest peak count drawn for a polygon
MaxPeaks == 5

\* largest number of points drawn for a polygon's peak
MaxPeakPoints == 3

SectionLists(n) == UNION {[1..m -> {LINE, BEZIER_CURVE}] : m \in 0..n}

Curves(maxPoints, maxSections) ==
  {[points |-> PointsRead(n), sectionTypes |-> s, closed |-> c] :
     n \in 0..maxPoints, s \in SectionLists(maxSections), c \in BOOLEAN}

InitPath ==
  /\ DocIdle
  /\ fn = None
  /\ ret = None
  /\ \/ \E c \in Curves(MaxCurvePoints, MaxSections), rest \in {<<>>} \cup {<<d>> : d \in Curves(2, 1)} :
          arg = [kind |-> "path", curves |-> <<c>> \o rest]
     \/ \E k \in 1..MaxPeaks, peak \in Curves(MaxPeakPoints, 2) :
          /\ ~peak.closed
          /\ arg = [kind |-> "polygon", peaksCount |-> k, peak |-> peak]

CreatePath ==
  /\ arg.kind = "path"
  /\ Apply("createPath", createPath(arg.curves))

CollectPolygon ==
  /\ arg.kind = "polygon"
  /\ Apply("collectPolygon", collectPolygon(arg.peaksCount, arg.peak))

NextPath == CreatePath \/ CollectPolygon

SpecPath == InitPath /\ [][NextPath]_vars

(* Text spans: ZMFCollector.cpp collectText, flushText *)

CR == "\r"

LF == "\n"

Space == " "

\* a text call of the sink; text is the string passed, a sequence of characters
TextCall(call, text) == [call |-> call, text |-> text]

\* a flushText that inserts its buffer even when it is empty
flushText_AlsoEmpty(calls, text) == Append(calls, TextCall("insertText", text))

\* flushText: insertText of a non-empty buffer (the caller's buffer is empty afterwards)
flushText(calls, text) ==
  IF text # <<>> THEN Append(calls, TextCall("insertText", text)) ELSE calls

\* the switch of collectText on one character; st holds wasSpace, curText and the calls
\* made so far
textStep(st, c) ==
  IF c \in {CR, LF} THEN st
  ELSE IF c = Space
    THEN IF st.wasSpace
           THEN [st EXCEPT !.calls = Append(flushText(st.calls, st.curText),
                                            TextCall("insertSpace", <<>>)),
                           !.curText = <<>>]
           ELSE [st EXCEPT !.wasSpace = TRUE, !.curText = Append(@, Space)]
  ELSE [st EXCEPT !.wasSpace = FALSE, !.curText = Append(@, c)]

\* the while loop of collectText over the characters of a span's text, from the k-th on
RECURSIVE textLoop(_, _, _)
textLoop(text, k, st) ==
  IF k > Len(text) THEN st
  ELSE textLoop(text, k + 1, textStep(st, text[k]))

\* collectText for one span: openSpan, the loop, the final flushText, closeSpan
collectSpan(text) ==
  LET K(st) == Append(flushText(st.calls, st.curText), TextCall("closeSpan", <<>>))
  IN K(textLoop(text, 1, [wasSpace |-> FALSE, curText |-> <<>>,
                          calls |-> <<TextCall("openSpan", <<>>)>>]))

\* longest span text drawn
MaxText == 5

TextChars == {"a", Space, CR, LF}

InitText ==
  /\ DocIdle
  /\ fn = None
  /\ ret = None
  /\ arg \in UNION {[1..n -> TextChars] : n \in 0..MaxText}

CollectSpan == Apply("collectText", collectSpan(arg))

NextText == CollectSpan

SpecText == InitText /\ [][NextText]_vars

(* Offset records of a bitmap header: BMIHeader.cpp readOffsets, BMITypes.cpp operator== *)

\* the switch of readOffsets on the u16 type of a record
BMIStreamType(type) ==
  CASE type = 1 -> "BITMAP"
    [] type = 255 -> "END_OF_FILE"
    [] OTHER -> "UNKNOWN"

\* the records as pushed back in the first loop; end is 0 from BMIOffset's constructor
pushedOffsets(records) ==
  [i \in 1..Len(records) |->
     [type |-> BMIStreamType(records[i].type), start |-> records[i].start, end |-> 0]]

\* operator==(BMIOffset, BMIOffset)
OffsetEq(lhs, rhs) == lhs.type = rhs.type /\ lhs.start = rhs.start

\* the orders std::sort may leave the vector in: it compares start only and is not
\* stable, so entries of equal start come out in any order
sortedOffsets(offsets) ==
  LET n == Len(offsets)
      perms == {p \in [1..n -> 1..n] : \A i, j \in 1..n : i # j => p[i] # p[j]}
  IN {s \in {[i \in 1..n |-> offsets[p[i]]] : p \in perms} :
        \A i \in 1..(n - 1) : ~(s[i + 1].start < s[i].start)}

\* std::unique followed by erase: of every run of adjacent equal entries the first stays
RECURSIVE uniqueOffsets(_)
uniqueOffsets(offsets) ==
  IF Len(offsets) < 2 THEN offsets
  ELSE IF OffsetEq(offsets[1], offsets[2])
    THEN uniqueOffsets(<<offsets[1]>> \o SubSeq(offsets, 3, Len(offsets)))
    ELSE <<offsets[1]>> \o uniqueOffsets(Tail(offsets))

\* the last loop of readOffsets
withEnds(offsets) ==
  [i \in 1..Len(offsets) |->
     IF i < Len(offsets) THEN [offsets[i] EXCEPT !.end = offsets[i + 1].start] ELSE offsets[i]]

\* most offset records drawn for one header (the header allows 1 to 6)
MaxOffsets == 3

OffsetRecords == [type : {1, 2, 255}, start : {0, 64, 128}]

InitOffsets ==
  /\ DocIdle
  /\ fn = None
  /\ ret = None
  /\ arg \in UNION {[1..n -> OffsetRecords] : n \in 1..MaxOffsets}

\* BMIHeader::readOffsets on the records of a header that load accepted
ReadOffsets ==
  \E s \in sortedOffsets(pushedOffsets(arg)) :
    Apply("readOffsets", withEnds(uniqueOffsets(s)))

NextOffsets == ReadOffsets

SpecOffsets == InitOffsets /\ [][NextOffsets]_vars

(* Pixel assembly: BMIParser.cpp readColorBitmap, readColorPalette *)

TwoTo16 == 65536

\* the product of a u16 and a value below 2^18 as hi * 2^16 + lo, without wrap-around
LongMul(a, b) ==
  LET t1 == a * ((b % TwoTo16) \div 256)
      t0 == a * ((b % TwoTo16) % 256)
      low == (t1 % 256) * 256 + t0
  IN [hi |-> a * (b \div TwoTo16) + (t1 \div 256) + (low \div TwoTo16), lo |-> low % TwoTo16]

\* unsigned 32-bit multiplication: the product modulo 2^32
U32Mul(a, b) == [LongMul(a, b) EXCEPT !.hi = @ % TwoTo16]

\* size < p for a product p held as hi * 2^16 + lo
LessThanProduct(size, p) ==
  \/ size \div TwoTo16 < p.hi
  \/ size \div TwoTo16 = p.hi /\ size % TwoTo16 < p.lo

\* the bytes of one row before padding: lineBitCount / 8, rounded up
rowBytes(width, colorDepth) ==
  (width * colorDepth) \div 8 + (IF (width * colorDepth) % 8 # 0 THEN 1 ELSE 0)

\* the while loop that pads a row to a multiple of four bytes
rowPadding(lineWidth) == (4 - (lineWidth % 4)) % 4

\* the palette index of the j-th pixel of a byte: indexes is shifted left by the depth
\* j times as a uint8_t, then masked and shifted down
paletteIndex(indexes, colorDepth, j) ==
  LET shift == 8 - (IF colorDepth < 8 THEN colorDepth ELSE 8)
      \* indexes & mask: mask is 0xff with its low shift bits cleared
      masked(byte) == byte - (byte % (2 ^ shift))
  IN masked((indexes * (2 ^ (colorDepth * j))) % 256) \div (2 ^ shift)

\* readColorPalette: the number of colours read
paletteSize(colorDepth) == 2 ^ colorDepth

\* the row loop of readColorBitmap from the given row on, i being the index of the next
\* byte of data: a row reads bytes bytes one after the other and then skips the padding.
\* Reading data[i] with i >= size is the out of bounds read of a vector
RECURSIVE pixelRows(_, _, _, _, _, _)
pixelRows(row, i, height, bytes, padding, size) ==
  IF row >= height \/ bytes = 0 THEN [outcome |-> "bitmap", index |-> i]
  ELSE IF i + bytes > size
    THEN [outcome |-> "outOfBounds", index |-> IF i > size THEN i ELSE size]
  ELSE pixelRows(row + 1, i + bytes + padding, height, bytes, padding, size)

\* readColorBitmap after readData returned size bytes
readColorBitmap(width, height, colorDepth, size) ==
  LET K(bytes, lineWidth) ==
        IF LessThanProduct(size, U32Mul(height, lineWidth))
          THEN [outcome |-> "empty", index |-> 0]
          ELSE pixelRows(0, 0, height, bytes, lineWidth - bytes, size)
  IN K(rowBytes(width, colorDepth),
       rowBytes(width, colorDepth) + rowPadding(rowBytes(width, colorDepth)))

\* largest of the small widths and heights drawn
MaxPixels == 3

\* largest payload drawn, in four-byte words
MaxWords == 4

BitmapDims == (0..MaxPixels) \cup {32768, 43690, 65535}

InitColorBitmap ==
  /\ DocIdle
  /\ fn = None
  /\ ret = None
  /\ arg \in [width : BitmapDims, height : BitmapDims, colorDepth : {1, 4, 8, 24},
              size : {4 * k : k \in 0..MaxWords}]

ReadColorBitmap ==
  Apply("readColorBitmap", readColorBitmap(arg.width, arg.height, arg.colorDepth, arg.size))

NextColorBitmap == ReadColorBitmap

SpecColorBitmap == InitColorBitmap /\ [][NextColorBitmap]_vars

----------------------------------------------------------------------------
(* Properties of the calls the painter received *)

\* the nesting automaton of the document, page and layer calls; other calls need an open document
NestStep(st, call) ==
  CASE call = "startDocument" -> IF st = "out" THEN "doc" ELSE "bad"
    [] call = "endDocument" -> IF st = "doc" THEN "closed" ELSE "bad"
    [] call = "startPage" -> IF st = "doc" THEN "page" ELSE "bad"
    [] call = "endPage" -> IF st = "page" THEN "doc" ELSE "bad"
    [] call = "startLayer" -> IF st = "page" THEN "layer" ELSE "bad"
    [] call = "endLayer" -> IF st = "layer" THEN "page" ELSE "bad"
    [] OTHER -> IF st \in {"doc", "page", "layer"} THEN st ELSE "bad"

RECURSIVE Nesting(_, _)
Nesting(calls, st) ==
  IF calls = <<>> THEN st ELSE Nesting(Tail(calls), NestStep(st, Head(calls)))

\* one startDocument first, one endDocument last, pages and layers properly nested and closed
WellFormed(calls) == Nesting(calls, "out") = "closed"

Count(calls, call) == Cardinality({i \in 1..Len(calls) : calls[i] = call})

\* every startPage is followed by an endPage before the next startPage
PagesClosed(calls) ==
  \A i \in 1..Len(calls) :
    calls[i] = "startPage" =>
      \E j \in (i + 1)..Len(calls) :
        /\ calls[j] = "endPage"
        /\ \A k \in (i + 1)..(j - 1) : calls[k] # "startPage"

Returned(e) == pc = "returned" /\ entry = e

DrawingParsed == Returned("parse") /\ info.m_type = "TYPE_DRAW"

----------------------------------------------------------------------------
(* Claims *)

\* C1: when ZMF4Parser::parse returns true, the painter received exactly one startDocument
\* (first) and one endDocument (last), every startPage is closed by one endPage before the
\* next startPage or the endDocument, every startLayer is closed by one endLayer before the
\* enclosing endPage, no layer starts outside a page and no page starts inside a layer.
C1_AcceptedDrawingIsWellFormed ==
  (DrawingParsed /\ result = "true") => WellFormed(col.painter)

C1_Witness ==
  /\ DrawingParsed
  /\ result = "true"
  /\ Count(col.painter, "endLayer") = 1
  /\ Count(col.painter, "drawPath") = 1
  /\ Count(col.painter, "endPage") = 1

\* C2: when parsing a drawing fails after startDocument was emitted, the painter receives
\* endLayer for the open layer, then endPage for the open page, then endDocument, so that
\* every start call it saw has its matching end call.
C2_FailedDrawingIsWellFormed ==
  (DrawingParsed /\ result = "false" /\ col.painter # <<>>) => WellFormed(col.painter)

\* C3: an object header whose size is 0 or exceeds the bytes from the object's start to the
\* end of the stream makes ZMFDocument::parse return false, and every startPage the painter
\* received has been followed by an endPage.
BadSize(h) == h.checked /\ (h.size = 0 \/ h.size > stream.len - h.startOffset)

C3_BadObjectSizeFailsWithPagesClosed ==
  BadSize(hdr) => /\ Returned("parse")
                  /\ result = "false"
                  /\ PagesClosed(col.painter)

C3_Witness ==
  /\ BadSize(hdr)
  /\ hdr.size > stream.len - hdr.startOffset
  /\ result = "false"
  /\ Count(col.painter, "startPage") = 1
  /\ Count(col.painter, "endPage") = 1

\* C4: isSupported and parse never let an error escape, and (as claimed) every short read,
\* failed seek or generic decode failure raised anywhere below them makes the call return
\* false.  Stated as claimed:
C4_AnyErrorMeansFalse ==
  (pc = "returned" /\ raised # <<>>) => result = "false"

EntryHandlers == {"ZMFDocument::isSupported", "ZMFDocument::parse"}

ReachedEntry == \E i \in 1..Len(raised) : raised[i].at \in EntryHandlers

\* C4, amended: no exception leaves an entry point; an exception that reaches the entry
\* point's own handler makes the call return false; an exception raised while a candidate
\* header is probed is caught there and only rejects that candidate.
C4_NoEscapeAndEntryErrorsMeanFalse ==
  /\ result # "threw"
  /\ (pc = "returned" /\ ReachedEntry) => result = "false"
  /\ \A i \in 1..Len(probes) :
       (probes[i].caught # None \/ probes[i].inner # None) => ~probes[i].valid

C4_Witness ==
  /\ Returned("parse")
  /\ ReachedEntry
  /\ result = "false"
  /\ col.painter # <<>>

\* the three headers, stated on the bytes of the stream: the bytes each load needs, and the
\* values each check accepts
DrawHeaderValid(s) == s.len >= 40 /\ s.sig8 = ZMF4_SIGNATURE

BitmapHeaderValid(s) ==
  /\ s.signature = "ZonerBMIa"
  /\ s.colorDepth \in {1, 4, 8, 24}
  /\ s.offsetCount \in 1..6
  /\ s.len >= 21 + (IF s.isPaletteMode # 0 THEN 4 * 2 ^ s.colorDepth ELSE 0) + 6 * s.offsetCount

LegacyHeaderValid(s) == s.len >= 104 /\ s.sig = 666 /\ s.version < 5

FirstValid(s) ==
  IF DrawHeaderValid(s) THEN <<"true", "TYPE_DRAW", "KIND_DRAW">>
  ELSE IF BitmapHeaderValid(s) THEN <<"true", "TYPE_BITMAP", "KIND_PAINT">>
  ELSE IF LegacyHeaderValid(s) THEN <<"true", "TYPE_ZEBRA", "KIND_DRAW">>
  ELSE <<"false", "TYPE_UNKNOWN", "KIND_UNKNOWN">>

\* C5: on a flat stream detection tries the drawing, the bitmap and the legacy header in this
\* order and reports the first that validates, else false; a failure of an earlier candidate,
\* an exception included, never keeps a later candidate from being tried.
C5_FlatStreamReportsFirstValidHeader ==
  (Returned("isSupported") /\ ~stream.structured) =>
    /\ <<result, info.m_type, info.m_kind>> = FirstValid(stream)
    /\ Len(probes) \in 1..3
    /\ \A i \in 1..Len(probes) :
         /\ probes[i].cand = <<"ZMF4Header", "BMIHeader", "ZBRHeader">>[i]
         /\ i < Len(probes) => ~probes[i].valid
    /\ Len(probes) < 3 => probes[Len(probes)].valid

C5_Witness ==
  /\ Returned("isSupported")
  /\ ~stream.structured
  /\ result = "true"
  /\ info.m_type = "TYPE_ZEBRA"
  /\ Len(probes) = 3
  /\ probes[2].caught # None

\* C6: a container is supported only if it has a content.zmf member whose drawing header
\* validates, and is then reported as (TYPE_DRAW, KIND_DRAW); a container without the member,
\* or whose member fails the drawing header check, is unsupported and never sniffed as a
\* bitmap or a legacy file.
C6_ContainerNeedsDrawingMember ==
  (Returned("isSupported") /\ stream.structured) =>
    /\ result = (IF stream.hasContent /\ DrawHeaderValid(stream) THEN "true" ELSE "false")
    /\ result = "true" => info = [m_type |-> "TYPE_DRAW", m_kind |-> "KIND_DRAW"]
    /\ result = "false" => info = DetectionInfo
    /\ \A i \in 1..Len(probes) : probes[i].cand = "ZMF4Header"

C6_Witness ==
  /\ Returned("isSupported")
  /\ stream.structured
  /\ stream.hasContent
  /\ result = "true"

TwoEqual(a, b, c) == a = b \/ a = c \/ b = c

Majority(a, b, c) == IF a = b \/ a = c THEN a ELSE b

Reconciled(ok, a, b, c, a2, b2, c2) ==
  /\ ok <=> TwoEqual(a, b, c)
  /\ ok => a2 = Majority(a, b, c) /\ b2 = a2 /\ c2 = a2
  /\ ~ok => a2 = a /\ b2 = b /\ c2 = c

\* C7: reconcileWidth (and likewise reconcileHeight) returns true iff at least two of the
\* header, colour-bitmap and transparency-bitmap values are equal; when true all three equal
\* that majority value afterwards, when false none of the three is changed.
C7_ReconcileIsMajorityVote ==
  /\ fn = "reconcileWidth" =>
       Reconciled(ret.ok, arg.m_width, arg.colorWidth, arg.transparencyWidth,
                  ret.after.m_width, ret.after.colorWidth, ret.after.transparencyWidth)
  /\ fn = "reconcileHeight" =>
       Reconciled(ret.ok, arg.m_height, arg.colorHeight, arg.transparencyHeight,
                  ret.after.m_height, ret.after.colorHeight, ret.after.transparencyHeight)

C7_Witness ==
  /\ fn = "reconcileWidth"
  /\ ret.ok
  /\ arg.m_width = arg.colorWidth
  /\ arg.transparencyWidth # arg.m_width
  /\ ret.after.transparencyWidth = arg.m_width

AllSame(points) == \A i \in 1..Len(points) : points[i] = points[1]

\* C8: constructing a BoundingBox from a point list whose size is not 4, or from four
\* identical points, fails with GenericException.  Stated as claimed:
C8_WrongCountOrIdenticalPointsFail ==
  fn = "BoundingBox" =>
    ((Len(arg) # 4 \/ AllSame(arg)) => ret.exc = GenericException)

\* C8, amended: constructing a BoundingBox fails with GenericException exactly when the
\* point list's size is not 4; four identical points construct a box.
C8_OnlyWrongCountFails ==
  fn = "BoundingBox" => (ret.exc = GenericException <=> Len(arg) # 4)

C8_Witness ==
  /\ fn = "BoundingBox"
  /\ Len(arg) = 4
  /\ AllSame(arg)
  /\ ret.exc = None

CeilDots(dashLength) == (dashLength + 1023) \div 1024

\* C9: for every pen produced by readPen, sum(dashPattern) + dashDistance is at most
\* ceil(dashLength / 1024) + 1.  Stated as claimed:
C9_DashTotalWithinLength ==
  fn = "readPen" =>
    accumulate(ret.dashPattern) + ret.dashDistance <= CeilDots(arg.dashLength) + 1

\* C9, amended: when not all 48 dash bits are set, sum(dashPattern) is at most 23,
\* dashDistance is at least 1 and sum(dashPattern) + dashDistance is the larger of
\* dashLength / 1024 (rounded down) and sum(dashPattern) + 1, so the total stays within
\* ceil(dashLength / 1024) + 1 only if sum(dashPattern) does not exceed
\* ceil(dashLength / 1024); when all 48 bits are set the pattern is empty and
\* dashDistance is 0.
C9_DashTotalIsLengthOrSumPlusOne ==
  fn = "readPen" =>
    LET sum == accumulate(ret.dashPattern)
        dots == arg.dashLength \div 1024
    IN IF all(bytesToBitset(arg.dashBytes))
         THEN ret.dashPattern = <<>> /\ ret.dashDistance = 0
         ELSE /\ sum <= 23
              /\ ret.dashDistance >= 1
              /\ sum + ret.dashDistance = (IF dots > sum + 1 THEN dots ELSE sum + 1)
              /\ sum <= CeilDots(arg.dashLength) =>
                   sum + ret.dashDistance <= CeilDots(arg.dashLength) + 1

C9_Witness ==
  /\ fn = "readPen"
  /\ Len(ret.dashPattern) >= 2
  /\ accumulate(ret.dashPattern) > CeilDots(arg.dashLength)
  /\ ret.dashDistance = 1

SectionWeight(t) == IF t = BEZIER_CURVE THEN 3 ELSE 1

RECURSIVE Weight(_)
Weight(sectionTypes) ==
  IF sectionTypes = <<>> THEN 0 ELSE SectionWeight(Head(sectionTypes)) + Weight(Tail(sectionTypes))

\* the k-th run of section records, the runs being separated by the end record
RECURSIVE RunOf(_, _)
RunOf(records, k) ==
  LET ends == {i \in 1..Len(records) : records[i] = SectionsEnd}
      first == CHOOSE i \in ends : \A j \in ends : i <= j
  IN IF k = 1 THEN SubSeq(records, 1, first - 1)
     ELSE RunOf(SubSeq(records, first + 1, Len(records)), k - 1)

Decoded(run) == [i \in 1..Len(run) |-> IF run[i] = 2 THEN BEZIER_CURVE ELSE LINE]

IsCurveCall == fn \in {"readCurveComponents", "readPolygon"}

BitmapHeaderConditions(s) ==
  /\ s.signature = "ZonerBMIa"
  /\ s.colorDepth \in {1, 4, 8, 24}
  /\ s.offsetCount \in 1..6

\* C11: a bitmap header is accepted only if its signature is "ZonerBMIa", its colour depth
\* is one of 1, 4, 8, 24 and its offset count is between 1 and 6; if any of the three
\* fails the stream is not detected as TYPE_BITMAP and readImage yields an empty image.
\* Stated as claimed, for streams long enough to hold the three fields (the offset count
\* ends at byte 21):
C11_RejectedHeaderGivesEmptyImage ==
  /\ fn = "BMIHeader" => (ret.accepted => BitmapHeaderConditions(arg.s))
  /\ fn = "detect" => (~BitmapHeaderConditions(arg.s) => ret.m_type # "TYPE_BITMAP")
  /\ fn = "readImage" /\ arg.s.len >= 21 =>
       (~BitmapHeaderConditions(arg.s) => ret.exc = None /\ ret.image = "empty")

\* C11, amended: a bitmap header is accepted only under the three conditions; if any of
\* them fails the stream is not detected as TYPE_BITMAP and readImage never yields a
\* picture: it yields an empty image, or it raises the short read or failed seek that
\* reading the header fields met before the failing condition was looked at.
C11_RejectedHeaderGivesNoImage ==
  /\ fn = "BMIHeader" => (ret.accepted => BitmapHeaderConditions(arg.s))
  /\ fn = "detect" => (~BitmapHeaderConditions(arg.s) => ret.m_type # "TYPE_BITMAP")
  /\ fn = "readImage" =>
       (~BitmapHeaderConditions(arg.s) =>
          /\ ret.image # "image"
          /\ ret.exc = None => ret.image = "empty"
          /\ ret.exc # None =>
               /\ ret.exc \in {EndOfStreamException, SeekFailedException}
               /\ BMIHeader_load(arg.s, 0).exc = ret.exc)

C11_Witness ==
  /\ fn = "readImage"
  /\ arg.s.signature # "ZonerBMIa"
  /\ arg.s.colorDepth \in {1, 4, 8, 24}
  /\ arg.s.offsetCount \in 1..6
  /\ arg.b.payload = "image"
  /\ arg.b.bitmapStart > 0
  /\ ret.exc = None
  /\ ret.image = "empty"

\* C12: in every drawing stream that parse accepts, the first page start and everything up
\* to the next page start produce no painter call: with N >= 1 page starts read at page
\* level the painter receives exactly N - 1 startPage calls, and while the master page is
\* skipped the painter receives nothing until the next page start, which starts a page.
C12_MasterPageIsNotEmitted ==
  /\ [](DrawingParsed /\ pageStartsRead >= 1 =>
          Count(col.painter, "startPage") = pageStartsRead - 1)
  /\ [][pc = "masterPage" /\ pc' # "returned" =>
          \/ pc' = "masterPage" /\ col' = col
          \/ /\ pc' = "page"
             /\ hdr'.type = "PAGE_START"
             /\ col'.painter = Append(col.painter, "startPage")]_vars

C12_Witness ==
  /\ DrawingParsed
  /\ pageStartsRead >= 3
  /\ Count(col.painter, "startPage") = 2
  /\ Count(col.painter, "startLayer") >= 1

\* C13: a pen whose reference list names an arrow id the arrow table does not hold when
\* the pen is parsed (never defined, or defined only later) is still stored under its own
\* id and still written as a stroke when a shape references it, and the style written for
\* that shape has no start or end marker for that arrow.
C13_MissingArrowKeepsPenWithoutMarker ==
  /\ \A id \in DOMAIN ret.missing :
       /\ id \in DOMAIN ret.m_pens
       /\ \A m \in ret.missing[id] :
            /\ m[1] = 0 => m[2] \notin ret.m_pens[id].startArrow
            /\ m[1] = 1 => m[2] \notin ret.m_pens[id].endArrow
  /\ fn = "readStyle" /\ ret.penRef \in DOMAIN ret.missing =>
       /\ ret.style.stroke = "solid"
       /\ \A m \in ret.missing[ret.penRef] :
            /\ m[1] = 0 => m[2] \notin ret.style.markerStart
            /\ m[1] = 1 => m[2] \notin ret.style.markerEnd

C13_Witness ==
  /\ fn = "readStyle"
  /\ ret.penRef = 2
  /\ 2 \in DOMAIN ret.missing
  /\ <<0, 1>> \in ret.missing[2]
  /\ 1 \in DOMAIN ret.m_arrows
  /\ ret.style.stroke = "solid"
  /\ ret.style.markerStart = {}

\* C14: each of startDocument, startPage, startLayer, startGroup, endGroup, endLayer,
\* endPage, endDocument is idempotent: calling it twice in a row gives the same painter
\* calls and the same collector state as calling it once.  Stated as claimed:
C14_EveryOperationIsIdempotent == ret.twice = ret.once

\* C14, amended: each of startDocument, startPage, startLayer, endLayer, endPage,
\* endDocument is idempotent in that sense; startGroup and endGroup are not: every call
\* of them sends one more openGroup or closeGroup to the painter.
C14_FlaggedOperationsAreIdempotent ==
  /\ fn \notin {"startGroup", "endGroup"} => ret.twice = ret.once
  /\ fn = "startGroup" =>
       /\ ret.once = Paint(ret.before, "openGroup")
       /\ ret.twice = Paint(ret.once, "openGroup")
  /\ fn = "endGroup" =>
       /\ ret.once = Paint(ret.before, "closeGroup")
       /\ ret.twice = Paint(ret.once, "closeGroup")

C14_Witness ==
  /\ fn = "startLayer"
  /\ ret.before.m_isPageStarted
  /\ ret.once # ret.before
  /\ ret.twice = ret.once


\* C15: a bounding box built from the corners, in traversal order, of an axis-aligned
\* rectangle of positive width and height whose first edge runs towards larger x
\* (rotation 0) has its first point in quadrant 2 and its second in quadrant 1 when the
\* first point has the smaller y, and in quadrants 3 and 4 when it has the larger y; the
\* first point's quadrant is never 1 or 4.
C15_FirstEdgeQuadrants ==
  (fn = "quadrants" /\ arg[2].x > arg[1].x) =>
    /\ ret.exc = None
    /\ ret.rotation = "0"
    /\ arg[1].y < arg[4].y => (ret.m_p1Quadrant = 2 /\ ret.m_p2Quadrant = 1)
    /\ arg[1].y > arg[4].y => (ret.m_p1Quadrant = 3 /\ ret.m_p2Quadrant = 4)
    /\ ret.m_p1Quadrant \notin {1, 4}

C15_Witness ==
  /\ fn = "quadrants"
  /\ arg = Rectangle(0, 2, 3, 1)
  /\ ret.rotation = "0"
  /\ ret.m_p1Quadrant = 3
  /\ ret.m_p2Quadrant = 4
  /\ ret.m_mirrorVertical
  /\ ~ret.m_mirrorHorizontal


\* C16: during ZMF4Parser::parse the stream offsets at which successive object headers
\* are read are strictly increasing, also across embedded bitmap objects, so the page
\* loop, the master-page skip loop and the layer loop all terminate: whenever a loop is
\* about to read a header, it reads it past the start of the header read last.
C16_HeaderOffsetsIncrease ==
  hdr.checked =>
    /\ pc \in {"readPage", "page", "layer"} => pos > hdr.startOffset
    /\ pc = "masterPage" => hdr.nextObjectOffset > hdr.startOffset


\* C17: in the layer loop, after every non-bitmap object the next object header is read
\* exactly at that object's nextObjectOffset, whatever its handler consumed; after every
\* bitmap object, with or without an id, with or without data, it is read at an offset
\* not smaller than the bitmap object's nextObjectOffset.
C17_NextHeaderAtObjectEnd ==
  (pc = "layer" /\ hdr.checked) =>
    IF hdr.type = "BITMAP"
      THEN pos >= hdr.nextObjectOffset
      ELSE pos = hdr.nextObjectOffset


\* C18: for each of the nine resource object kinds (fill, transparency, pen, shadow,
\* arrow, font, paragraph style, text, bitmap), when the object's header id is
\* 0xffffffff the object is dropped: the nine id tables are left unchanged, the sink is
\* not called, and parsing continues with the following object.
C18_ResourceWithoutIdIsDropped ==
  (fn = "readLayer" /\ arg.h.id = NO_ID) =>
    /\ ret.exc = None
    /\ ret.tables = arg.tables
    /\ ret.col = NewCollector
    /\ ret.pos = ResourceStart + arg.h.size


\* C19: readObjectRefs starts reading the reference list at nextObjectOffset - 8 *
\* refCount when the header's ref-list-start offset is 0, and at the absolute offset
\* objectStart + refListStartOffset when that offset is greater than 0; in both cases it
\* reads refCount ids followed by refCount tags, and the bytes read lie inside the
\* object's byte range [objectStart, nextObjectOffset).
C19_RefListStartsWhereHeaderSays ==
  (fn = "readObjectRefs" /\ ret.exc = None /\ arg.h.refObjCount > 0) =>
    /\ ret.refObjCount = arg.h.refObjCount
    /\ ret.start = IF arg.h.refListStartOffset = 0
                     THEN ret.header.nextObjectOffset - 8 * arg.h.refObjCount
                     ELSE ResourceStart + arg.h.refListStartOffset
    /\ ret.start >= ret.header.startOffset
    /\ ret.start + 8 * ret.refObjCount <= ret.header.nextObjectOffset
    /\ ret.pos = ret.start + 8 * ret.refObjCount


PageLevelTypes == {"GUIDELINES", "LAYER_START", "PAGE_END"}

\* the step reads, at offset p, a whole object header of a type outside types
ReadsOther(p, types) ==
  /\ hdr'.checked
  /\ hdr'.startOffset = p
  /\ hdr'.type \notin types

\* the call returns false in this step and the painter receives no further shape
FailsWithoutShapes ==
  /\ pc' = "returned"
  /\ result' = "false"
  /\ Count(col'.painter, "drawPath") = Count(col.painter, "drawPath")

\* C20: at page level (after a page-start and outside any layer) an object whose type is
\* anything other than guidelines, layer-start or page-end makes parse return false;
\* likewise the first non-palette object where a page is expected must be a page-start,
\* otherwise parse returns false; in both cases no further shapes are emitted.  Stated
\* as claimed, for every page-start, the first one included:
C20_UnexpectedObjectFailsOnEveryPage ==
  [][/\ (pc = "page" /\ ReadsOther(pos, PageLevelTypes)) => FailsWithoutShapes
     /\ (pc = "masterPage" /\ ReadsOther(hdr.nextObjectOffset, PageLevelTypes \cup {"PAGE_START"}))
          => FailsWithoutShapes
     /\ (pc = "readPage" /\ ReadsOther(pos, {"COLOR_PALETTE", "PAGE_START"}))
          => FailsWithoutShapes]_vars

\* C20, amended: on every page but the first, an object at page level whose type is
\* anything other than guidelines, layer-start or page-end makes parse return false, and
\* so does a first non-palette object other than a page-start where a page is expected;
\* no further shapes are emitted.  The objects of the first (master) page are stepped
\* over whatever their type, up to the next page-start.
C20_UnexpectedObjectFailsPastMasterPage ==
  [][/\ (pc = "page" /\ ReadsOther(pos, PageLevelTypes)) => FailsWithoutShapes
     /\ (pc = "readPage" /\ ReadsOther(pos, {"COLOR_PALETTE", "PAGE_START"}))
          => FailsWithoutShapes
     /\ (pc = "masterPage" /\ ReadsOther(hdr.nextObjectOffset, {"PAGE_START"})
           /\ hdr'.nextObjectOffset > hdr'.startOffset)
          => (pc' = "masterPage" /\ result' = result /\ col' = col)]_vars

C20_Witness ==
  /\ Returned("parse")
  /\ result = "false"
  /\ hdr.type = "RECTANGLE"
  /\ hdr.nextObjectOffset = hdr.startOffset + hdr.size
  /\ Count(col.painter, "startPage") = 1
  /\ Count(col.painter, "startLayer") = 0
  /\ raised = <<[exc |-> GenericException, at |-> "ZMFDocument::parse"]>>


\* C21: whenever ZMFCollector::startPage is called while a layer is running, the running
\* layer is ended first (the sink receives endLayer and the layer flag is cleared), for
\* every collector state, including the state in which a page is already started.
\* Stated as claimed:
C21_StartPageAlwaysEndsLayer ==
  (fn = "startPage" /\ ret.before.m_isLayerStarted) =>
    /\ ~ret.once.m_isLayerStarted
    /\ Len(ret.once.painter) > Len(ret.before.painter)
    /\ ret.once.painter[Len(ret.before.painter) + 1] = "endLayer"

\* C21, amended: when startPage is called while a layer is running and no page is
\* started, the running layer is ended first: the sink receives endLayer, then startPage,
\* and the layer flag is cleared.  When a page is already started startPage does
\* nothing: the sink receives no call and a running layer keeps running.
C21_StartPageEndsLayerUnlessPageStarted ==
  fn = "startPage" =>
    /\ (ret.before.m_isLayerStarted /\ ~ret.before.m_isPageStarted) =>
         /\ ret.once.painter = ret.before.painter \o <<"endLayer", "startPage">>
         /\ ~ret.once.m_isLayerStarted
         /\ ret.once.m_isPageStarted
    /\ ret.before.m_isPageStarted => ret.once = ret.before

C21_Witness ==
  /\ fn = "startPage"
  /\ ret.before.m_isLayerStarted
  /\ ~ret.before.m_isPageStarted
  /\ ret.once.painter = <<"startLayer", "endLayer", "startPage">>


\* C22: readGradient reads stop records only when the whole stop area (20 header bytes
\* plus 16 bytes per stop) fits before the object's nextObjectOffset: for every 32-bit
\* stop count, those for which 16 * stopCount overflows 32 bits included, either no stop
\* is read, or every byte read for the stops lies before nextObjectOffset.
C22_StopsLieInsideObject ==
  (fn = "readGradient" /\ ret.stops > 0) =>
    /\ ret.pos <= ret.header.nextObjectOffset
    /\ arg.n.hi = 0
    /\ arg.start + ObjectHeaderSize + 12 + 8 + 20 + 16 * arg.n.lo <= ret.header.nextObjectOffset


\* the block inflates to output
Inflates(block) == block.inflate = "Z_STREAM_END" /\ block.out > 0

\* the output of the blocks i..j of the list, in order
OutputOf(blocks, i, j) ==
  [k \in 1..(j - i + 1) |-> [block |-> i + k - 1, bytes |-> blocks[i + k - 1].out]]

\* readData got as far as a block that does not inflate
FailedBlockRead ==
  /\ fn = "readData"
  /\ ret.exc = None
  /\ ret.read >= 1
  /\ ~Inflates(arg.blocks[ret.read])

\* C23: in BMIParser::readData, when inflating one compressed block fails, only the data
\* from that block is abandoned and the output already inflated from earlier blocks is
\* kept; the result is empty only if the whole decode produced no output.  Stated as
\* claimed:
C23_EarlierBlocksAreKept ==
  FailedBlockRead => ret.data = OutputOf(arg.blocks, 1, ret.read - 1)

\* C23, amended: in BMIParser::readData, when inflating one compressed block fails
\* (inflate reports an error, or the block inflates to nothing), the output already
\* inflated from earlier blocks is discarded with it: the result is empty and no further
\* block is read.  When every block up to the end offset inflates, the result is their
\* output in order.
C23_FailedBlockEmptiesResult ==
  (fn = "readData" /\ ret.exc = None) =>
    /\ ret.read <= Len(arg.blocks)
    /\ \A k \in 1..(ret.read - 1) : Inflates(arg.blocks[k])
    /\ IF ret.read >= 1 /\ ~Inflates(arg.blocks[ret.read])
         THEN /\ ret.data = <<>>
              /\ ret.pos = BlockStart(arg.blocks, ret.read + 1, DataStart)
         ELSE /\ ret.data = OutputOf(arg.blocks, 1, ret.read)
              /\ ret.pos >= arg.endOffset

C23_Witness ==
  /\ FailedBlockRead
  /\ ret.read = 2
  /\ Inflates(arg.blocks[1])
  /\ arg.blocks[2] = Block(4, "Z_DATA_ERROR", 2)
  /\ Len(arg.blocks) = 3
  /\ ret.data = <<>>

\* the entries of a path that name a vertex: its M and L entries
Vertices(path) == SelectSeq(path, LAMBDA e : e.action \in {"M", "L"})

\* collectPolygon has drawn a polygon whose peak is two points joined by one line
TwoPointLinePeak ==
  /\ fn = "collectPolygon"
  /\ Len(arg.peak.points) = 2
  /\ arg.peak.sectionTypes = <<LINE>>

\* C24: collectPolygon with peak count k and a peak of two points with one LINE section
\* emits one closed path whose vertex list (the M entry plus the L entries) has exactly
\* k vertices.  Stated as claimed:
C24_PolygonHasPeakCountVertices ==
  TwoPointLinePeak => Len(Vertices(ret.path)) = arg.peaksCount

\* C24, amended: collectPolygon replicates the side k times and drops the first point of
\* every copy after the first, so a peak of n >= 2 points with s sections gives a curve
\* of n + (k - 1) * (n - 1) points and k * s sections, every point the side's point
\* turned by its copy's multiple of the peak angle.  For a peak of two points with one
\* LINE section the closed path is the M entry at the side's first point, k L entries at
\* the side's second point turned 0 .. k - 1 times, and Z: k + 1 vertex entries (6 for
\* k = 5).  A peak of fewer than two points draws nothing.
C24_PolygonHasOneMoreVertexThanPeaks ==
  (fn = "collectPolygon") =>
    LET k == arg.peaksCount
        n == Len(arg.peak.points)
    IN IF n < 2 THEN ~ret.drawn
       ELSE /\ ret.drawn
            /\ ret.curve.closed
            /\ Len(ret.curve.points) = n + (k - 1) * (n - 1)
            /\ Len(ret.curve.sectionTypes) = k * Len(arg.peak.sectionTypes)
            /\ \A j \in 1..n : ret.curve.points[j] = Turned(arg.peak.points[j], 0)
            /\ \A i \in 1..(k - 1), j \in 2..n :
                 ret.curve.points[n + (i - 1) * (n - 1) + j - 1] = Turned(arg.peak.points[j], i)
            /\ TwoPointLinePeak =>
                 /\ Len(ret.path) = k + 2
                 /\ ret.path[1] = PathPart("M", <<Turned(arg.peak.points[1], 0)>>)
                 /\ \A i \in 1..k :
                      ret.path[i + 1] = PathPart("L", <<Turned(arg.peak.points[2], i - 1)>>)
                 /\ ret.path[k + 2] = PathPart("Z", <<>>)
                 /\ Len(Vertices(ret.path)) = k + 1

C24_Witness ==
  /\ TwoPointLinePeak
  /\ arg.peaksCount = 5
  /\ Len(Vertices(ret.path)) = 6
  /\ ret.path[7].action = "Z"

\* the calls the sink receives for one picture
OneImageCalls ==
  <<"startDocument", "startPage", "startLayer", "setStyle", "drawGraphicObject",
    "endLayer", "endPage", "endDocument">>

\* the step in which BMIParser::parse runs and control leaves it
BMIParserLeaves == pc = "BMIParser" /\ pc' = "returned"

\* C25: BMIParser::parse has exactly two outcomes: it returns false and the sink has
\* received no call at all, or it returns true and the sink has received exactly
\* startDocument, startPage, startLayer, setStyle, drawGraphicObject, endLayer, endPage,
\* endDocument.  Stated as claimed (control leaves it by a return in every case):
C25_BitmapParseReturnsFalseOrOneImage ==
  [][BMIParserLeaves =>
       /\ raised' = raised
       /\ \/ result' = "false" /\ col'.painter = <<>>
          \/ result' = "true" /\ col'.painter = OneImageCalls]_vars

\* C25, amended: BMIParser::parse has three outcomes.  It returns false and the sink has
\* received no call; or it returns true and the sink has received exactly the eight calls
\* around one image; or a short read or failed seek met while the header, the bitmap's own
\* header, its palette or its pixel data is read leaves it as an exception, the sink
\* having received no call, and ZMFDocument::parse turns that into false.
C25_BitmapParseReturnsOrRaisesBeforeAnyCall ==
  [][BMIParserLeaves =>
       \/ raised' = raised /\ result' = "false" /\ col'.painter = <<>>
       \/ raised' = raised /\ result' = "true" /\ col'.painter = OneImageCalls
       \/ /\ \E e \in {EndOfStreamException, SeekFailedException} :
               raised' = Append(raised, [exc |-> e, at |-> "ZMFDocument::parse"])
          /\ result' = "false"
          /\ col'.painter = <<>>]_vars

C25_Witness ==
  /\ Returned("parse")
  /\ info.m_type = "TYPE_BITMAP"
  /\ ReachedEntry
  /\ raised[Len(raised)].exc = EndOfStreamException
  /\ result = "false"
  /\ col.painter = <<>>

\* the string the sink has been given by a list of text calls: the inserted strings in
\* order, each insertSpace counted as one space
RECURSIVE Inserted(_)
Inserted(calls) ==
  IF calls = <<>> THEN <<>>
  ELSE (CASE Head(calls).call = "insertText" -> Head(calls).text
          [] Head(calls).call = "insertSpace" -> <<Space>>
          [] OTHER -> <<>>) \o Inserted(Tail(calls))

WithoutLineEnds(text) == SelectSeq(text, LAMBDA c : c \notin {CR, LF})

AdjacentSpaces(text) == \E i \in 1..(Len(text) - 1) : text[i] = Space /\ text[i + 1] = Space

\* C26: for every span text, the insertText and insertSpace calls emitted between
\* openSpan and closeSpan reproduce the text with every \r and \n removed, no inserted
\* string contains two adjacent spaces, and no insertText call is made with an empty
\* string.
C26_SpanCallsReproduceText ==
  (fn = "collectText") =>
    /\ Head(ret).call = "openSpan"
    /\ ret[Len(ret)].call = "closeSpan"
    /\ \A i \in 2..(Len(ret) - 1) : ret[i].call \in {"insertText", "insertSpace"}
    /\ Inserted(ret) = WithoutLineEnds(arg)
    /\ \A i \in 1..Len(ret) :
         ret[i].call = "insertText" => ret[i].text # <<>> /\ ~AdjacentSpaces(ret[i].text)

C26_Witness ==
  /\ fn = "collectText"
  /\ arg = <<"a", Space, LF, Space, Space>>
  /\ ret = <<TextCall("openSpan", <<>>), TextCall("insertText", <<"a", Space>>),
             TextCall("insertSpace", <<>>), TextCall("insertSpace", <<>>),
             TextCall("closeSpan", <<>>)>>

\* C27: after BMIHeader::load succeeds, the stored offsets are ordered by non-decreasing
\* start, no two stored entries have the same (type, start) pair, and every entry except
\* the last has end equal to the start of the entry that follows it.
C27_OffsetsSortedUniqueAndChained ==
  (fn = "readOffsets") =>
    /\ \A i \in 1..(Len(ret) - 1) :
         /\ ret[i].start <= ret[i + 1].start
         /\ ret[i].end = ret[i + 1].start
    /\ \A i, j \in 1..Len(ret) : i # j => ~OffsetEq(ret[i], ret[j])

\* the padded row stride of a bitmap
PaddedRowStride(width, colorDepth) ==
  rowBytes(width, colorDepth) + rowPadding(rowBytes(width, colorDepth))

\* C28: readColorBitmap never reads the inflated payload at an index at or beyond its
\* size: for every 16-bit width and height and every depth in {1, 4, 8, 24}, pixels are
\* assembled only if the payload holds at least height * paddedRowStride bytes (the
\* product taken without 32-bit wrap-around), otherwise an empty bitmap is returned; and
\* every palette lookup uses an index smaller than the palette size 2^depth.
C28_PixelReadsStayInsidePayload ==
  (fn = "readColorBitmap") =>
    /\ ret.outcome # "outOfBounds"
    /\ IF LessThanProduct(arg.size, LongMul(arg.height, PaddedRowStride(arg.width, arg.colorDepth)))
         THEN ret.outcome = "empty"
         ELSE ret.outcome = "bitmap" /\ ret.index <= arg.size
    /\ arg.colorDepth < 24 =>
         \A b \in 0..255, j \in 0..((8 \div arg.colorDepth) - 1) :
           paletteIndex(b, arg.colorDepth, j) < paletteSize(arg.colorDepth)

\* the path cut into the parts that start at an M entry
RECURSIVE SegmentsOf(_, _)
SegmentsOf(path, done) ==
  IF path = <<>> THEN done
  ELSE IF Head(path).action = "M" \/ done = <<>>
    THEN SegmentsOf(Tail(path), Append(done, <<Head(path)>>))
    ELSE SegmentsOf(Tail(path), [done EXCEPT ![Len(done)] = Append(@, Head(path))])

\* the points the entries of a path name, in order
RECURSIVE PointsUsed(_)
PointsUsed(path) ==
  IF path = <<>> THEN <<>> ELSE Head(path).points \o PointsUsed(Tail(path))

PointsOfAction(action) ==
  CASE action = "M" -> 1
    [] action = "L" -> 1
    [] action = "C" -> 3
    [] OTHER -> 0

\* C29: createPath never indexes a curve's point list out of bounds: for every curve and
\* every section-type sequence (including sequences that demand more points than the
\* curve has) each emitted L entry uses one existing point and each emitted C entry uses
\* three existing points, points are consumed in order without reuse, and curves with
\* fewer than two points emit nothing.
C29_PathUsesExistingPointsInOrder ==
  (fn = "createPath") =>
    LET drawn == SelectSeq(arg.curves, LAMBDA c : Len(c.points) >= 2)
        segments == SegmentsOf(ret, <<>>)
    IN /\ Len(segments) = Len(drawn)
       /\ \A k \in 1..Len(segments) :
            LET used == PointsUsed(segments[k])
            IN /\ Head(segments[k]).action = "M"
               /\ \A e \in 1..Len(segments[k]) :
                    /\ Len(segments[k][e].points) = PointsOfAction(segments[k][e].action)
                    /\ \A p \in 1..Len(segments[k][e].points) :
                         segments[k][e].points[p] # OutOfBounds
               /\ Len(used) <= Len(drawn[k].points)
               /\ used = SubSeq(drawn[k].points, 1, Len(used))

C29_Witness ==
  /\ fn = "createPath"
  /\ Len(arg.curves) = 2
  /\ Len(arg.curves[1].points) = 3
  /\ arg.curves[1].sectionTypes = <<BEZIER_CURVE, LINE, LINE, LINE>>
  /\ ~arg.curves[1].closed
  /\ Len(arg.curves[2].points) = 1
  /\ arg.curves[2].closed
  /\ ret = <<PathPart("M", <<Pt(1, 1)>>), PathPart(None, <<>>), PathPart("L", <<Pt(2, 2)>>),
             PathPart("L", <<Pt(3, 3)>>), PathPart(None, <<>>)>>

\* the group calls of a run of sink calls are balanced within each layer: counted from
\* the layer's startLayer, closeGroup never outnumbers openGroup, and at endLayer the
\* two are equal; depth is the number of groups open in the current layer
RECURSIVE GroupsBalanced(_, _)
GroupsBalanced(calls, depth) ==
  IF calls = <<>> THEN TRUE
  ELSE CASE Head(calls) = "startLayer" -> GroupsBalanced(Tail(calls), 0)
         [] Head(calls) = "openGroup" -> GroupsBalanced(Tail(calls), depth + 1)
         [] Head(calls) = "closeGroup" -> depth > 0 /\ GroupsBalanced(Tail(calls), depth - 1)
         [] Head(calls) = "endLayer" -> depth = 0 /\ GroupsBalanced(Tail(calls), 0)
         [] OTHER -> GroupsBalanced(Tail(calls), depth)

\* C30: in every drawing stream that parse accepts, group calls are balanced within each
\* layer: the closeGroup calls since the layer's startLayer never exceed the openGroup
\* calls, and at the layer's endLayer the two numbers are equal, for every sequence of
\* group-start and group-end objects in the layer.  Stated as claimed:
C30_GroupCallsBalancedInEveryLayer ==
  (DrawingParsed /\ result = "true") => GroupsBalanced(col.painter, 0)

\* the step reads, at offset p, an object header that passes the checks and has the type
ReadsType(p, type) ==
  /\ hdr'.checked
  /\ hdr'.startOffset = p
  /\ hdr'.type = type

\* C30, amended: the parser passes group objects on as flat events.  Every group-start
\* object read in a layer sends exactly one openGroup to the sink and every group-end
\* object exactly one closeGroup, in stream order (none if the object's header fails its
\* checks and parse gives up there), and no other step sends either call; nothing
\* balances them, so the group calls of a layer are balanced only if the group objects
\* of the stream are.
C30_GroupCallsFollowGroupObjects ==
  [][LET opened == Count(col'.painter, "openGroup") - Count(col.painter, "openGroup")
         closed == Count(col'.painter, "closeGroup") - Count(col.painter, "closeGroup")
     IN IF pc = "layer" /\ ReadsType(pos, "GROUP_START")
          THEN closed = 0 /\ opened \in {0, 1} /\ (pc' = "layer" => opened = 1)
        ELSE IF pc = "layer" /\ ReadsType(pos, "GROUP_END")
          THEN opened = 0 /\ closed \in {0, 1} /\ (pc' = "layer" => closed = 1)
        ELSE opened = 0 /\ closed = 0]_vars

C30_Witness ==
  /\ DrawingParsed
  /\ result = "true"
  /\ \E i \in 1..(Len(col.painter) - 2) :
       /\ col.painter[i] = "startLayer"
       /\ col.painter[i + 1] = "closeGroup"
       /\ col.painter[i + 2] = "endLayer"

====
